---- MODULE Spec2Model ----
(***************************************************************************)
(* A model of mnemofy's two deterministic engines:                         *)
(*   - HeuristicClassifier.detect_meeting_type  (src/mnemofy/classifier.py)*)
(*   - Transcriber.normalize_transcript / repair_transcript and their      *)
(*     helpers                                  (src/mnemofy/transcriber.py)*)
(*                                                                         *)
(* Conventions.                                                            *)
(*   Text is a TLA+ string; a character is a string of length 1, read with *)
(*   SubSeq(s, i, i).                                                      *)
(*   Scores are integers in units of 1/1000: a keyword weight w is written *)
(*   in tenths (2.5 -> 25) and ln(1 + count) in hundredths (LnTable).      *)
(*   Confidences are exact fractions [n |-> numerator, d |-> denominator]. *)
(*   Times are integer milliseconds.                                       *)
(***************************************************************************)
EXTENDS Integers, Sequences, FiniteSets, TLC

VARIABLES
    pc,             \* position of the modelled call: "start", then the name of its outcome
    cls,            \* detect_meeting_type: its arguments, local scores and result
    stut,           \* _reduce_stutters: its argument and results
    heap,           \* Python objects of the normalizer (dicts and lists), by address
    norm,           \* normalize_transcript: its arguments, the caller's snapshot, its result
    rep,            \* repair_transcript: its arguments, the collaborator's response, its result
    nums,           \* _normalize_numbers_dates: its argument and result
    stitch,         \* _stitch_sentences: its argument, the caller's snapshot, its results
    pipe,           \* TranscribePipeline: its config, its context and the steps it has run
    api,            \* an LLM engine's _call_api: its retry loop, the requests made, its outcome
    menu            \* MeetingTypeMenu: its candidates, the selected index, the keys read

vars == <<pc, cls, stut, heap, norm, rep, nums, stitch, pipe, api, menu>>

None == "None"

\* ------------------------------------------------------------------------
\* Characters and strings
\* ------------------------------------------------------------------------

CharAt(s, i) == SubSeq(s, i, i)

UpperChars == "ABCDEFGHIJKLMNOPQRSTUVWXYZ"
LowerChars == "abcdefghijklmnopqrstuvwxyz"
DigitChars == "0123456789"

CharsOf(s) == { CharAt(s, i) : i \in 1..Len(s) }

LowerCharMap ==
    [c \in CharsOf(UpperChars) |->
        LET i == CHOOSE j \in 1..Len(UpperChars) : CharAt(UpperChars, j) = c
        IN  CharAt(LowerChars, i)]

UpperCharMap ==
    [c \in CharsOf(LowerChars) |->
        LET i == CHOOSE j \in 1..Len(LowerChars) : CharAt(LowerChars, j) = c
        IN  CharAt(UpperChars, i)]

LowerChar(c) == IF c \in DOMAIN LowerCharMap THEN LowerCharMap[c] ELSE c

\* str.lower()
RECURSIVE Lower(_)
Lower(s) ==
    IF Len(s) = 0 THEN ""
    ELSE IF Len(s) = 1 THEN LowerChar(s)
    ELSE LET h == Len(s) \div 2
         IN  Lower(SubSeq(s, 1, h)) \o Lower(SubSeq(s, h + 1, Len(s)))

\* regex \w on the modelled alphabet: letters, digits and underscore
WordChars == CharsOf(UpperChars) \cup CharsOf(LowerChars) \cup CharsOf(DigitChars) \cup {"_"}
IsWordChar(c) == c \in WordChars

\* regex \s and str.split() / str.strip() whitespace
SpaceChars == {" ", "\t", "\n"}
IsSpace(c) == c \in SpaceChars

\* s[i-1:].startswith(p), positions from 1
StartsWithAt(s, i, p) == i + Len(p) - 1 <= Len(s) /\ SubSeq(s, i, i + Len(p) - 1) = p

\* str.find(sub, i-1) + 1: the first position >= i where sub occurs, 0 if none
FindFrom(s, sub, i) ==
    LET hits == { j \in i..(Len(s) - Len(sub) + 1) : SubSeq(s, j, j + Len(sub) - 1) = sub }
    IN  IF hits = {} THEN 0 ELSE CHOOSE j \in hits : \A k \in hits : j <= k

\* str.count(sub): non-overlapping occurrences, scanning from the left
RECURSIVE CountFrom(_, _, _)
CountFrom(s, sub, i) ==
    LET j == FindFrom(s, sub, i)
    IN  IF j = 0 THEN 0 ELSE 1 + CountFrom(s, sub, j + Len(sub))

StrCount(s, sub) == CountFrom(s, sub, 1)

\* sub in s
Contains(s, sub) == FindFrom(s, sub, 1) # 0

\* str.split(sep) for a one-character separator: always at least one piece
RECURSIVE SplitOn(_, _)
SplitOn(s, sep) ==
    LET j == FindFrom(s, sep, 1)
    IN  IF j = 0 THEN <<s>>
        ELSE <<SubSeq(s, 1, j - 1)>> \o SplitOn(SubSeq(s, j + 1, Len(s)), sep)

\* " ".join(xs)
RECURSIVE JoinSpace(_)
JoinSpace(xs) ==
    IF xs = <<>> THEN ""
    ELSE IF Len(xs) = 1 THEN xs[1]
    ELSE xs[1] \o " " \o JoinSpace(Tail(xs))

\* ------------------------------------------------------------------------
\* Exact fractions (Python floats taken as reals)
\* ------------------------------------------------------------------------

RECURSIVE Gcd(_, _)
Gcd(a, b) == IF b = 0 THEN a ELSE Gcd(b, a % b)

Frac(n, d) == LET g == Gcd(n, d) IN IF g = 0 THEN [n |-> 0, d |-> 1] ELSE [n |-> n \div g, d |-> d \div g]

FMul(a, b) ==
    LET g1 == Gcd(a.n, b.d)
        g2 == Gcd(b.n, a.d)
        an == IF g1 = 0 THEN 0 ELSE a.n \div g1
        bd == IF g1 = 0 THEN b.d ELSE b.d \div g1
        bn == IF g2 = 0 THEN 0 ELSE b.n \div g2
        ad == IF g2 = 0 THEN a.d ELSE a.d \div g2
    IN  Frac(an * bn, ad * bd)

FAdd(a, b) == Frac(a.n * b.d + b.n * a.d, a.d * b.d)

FLess(a, b) == a.n * b.d < b.n * a.d
FLeq(a, b) == a.n * b.d <= b.n * a.d

FZero == [n |-> 0, d |-> 1]
FOne == [n |-> 1, d |-> 1]
FHalf == [n |-> 1, d |-> 2]

\* evaluation order only: TRUE once x has been computed, so that a loop's intermediate
\* value is computed before the next iteration, as in the code
Evaluated(x) == x = x

Min(a, b) == IF a <= b THEN a ELSE b
Max(a, b) == IF a >= b THEN a ELSE b

\* ------------------------------------------------------------------------
\* classifier.py: MeetingType, MEETING_TYPE_KEYWORDS
\* ------------------------------------------------------------------------

\* class MeetingType, in declaration order (the iteration order of the table)
MeetingTypes ==
    <<"status", "planning", "design", "demo", "talk", "incident", "discovery", "oneonone", "brainstorm">>

\* keyword weights in tenths: 2.5 is written 25
MEETING_TYPE_KEYWORDS ==
    [
      status |-> <<
        <<"status", 25>>, <<"update", 25>>, <<"progress", 20>>, <<"blockers", 25>>,
        <<"blocked", 20>>, <<"impediments", 20>>, <<"stand-up", 30>>, <<"standup", 30>>,
        <<"scrum", 25>>, <<"sprint", 20>>, <<"yesterday", 20>>, <<"today", 15>>,
        <<"tomorrow", 15>>, <<"this week", 10>>, <<"last week", 10>>, <<"next week", 10>>,
        <<"working on", 15>>, <<"finished", 10>>, <<"completed", 10>>,
        <<"in progress", 15>>, <<"waiting for", 15>>
      >>,
      planning |-> <<
        <<"roadmap", 25>>, <<"milestone", 20>>, <<"sprint planning", 30>>,
        <<"backlog", 25>>, <<"prioritize", 20>>, <<"priority", 15>>, <<"estimate", 20>>,
        <<"timeline", 20>>, <<"deadline", 15>>, <<"dependencies", 15>>,
        <<"next quarter", 20>>, <<"next sprint", 20>>, <<"upcoming", 15>>, <<"plan", 15>>,
        <<"schedule", 15>>, <<"allocate", 15>>, <<"resource", 10>>, <<"story points", 25>>,
        <<"velocity", 20>>, <<"capacity", 15>>, <<"commitment", 15>>
      >>,
      design |-> <<
        <<"architecture", 25>>, <<"design", 20>>, <<"technical", 15>>, <<"approach", 15>>,
        <<"pattern", 20>>, <<"trade-offs", 25>>, <<"tradeoffs", 25>>, <<"component", 15>>,
        <<"module", 15>>, <<"interface", 20>>, <<"API", 20>>, <<"schema", 20>>,
        <<"data model", 25>>, <<"diagram", 20>>, <<"whiteboard", 20>>, <<"mock", 15>>,
        <<"mockup", 15>>, <<"prototype", 20>>, <<"proposal", 15>>, <<"scalability", 20>>,
        <<"performance", 15>>
      >>,
      demo |-> <<
        <<"demo", 30>>, <<"demonstrate", 25>>, <<"show", 15>>, <<"presentation", 20>>,
        <<"showcase", 25>>, <<"walkthrough", 20>>, <<"let me show", 25>>,
        <<"you can see", 20>>, <<"as you can see", 20>>, <<"here's how", 20>>,
        <<"click", 15>>, <<"screen", 15>>, <<"feature", 15>>, <<"feedback", 15>>,
        <<"questions", 10>>, <<"thoughts", 10>>, <<"works", 10>>
      >>,
      talk |-> <<
        <<"presentation", 20>>, <<"talk", 15>>, <<"lecture", 25>>, <<"today I'll", 20>>,
        <<"agenda", 20>>, <<"introducing", 20>>, <<"overview", 20>>,
        <<"thank you for", 15>>, <<"questions", 10>>, <<"slides", 25>>,
        <<"next slide", 25>>, <<"explain", 15>>, <<"learn", 15>>, <<"understand", 10>>
      >>,
      incident |-> <<
        <<"incident", 30>>, <<"outage", 30>>, <<"down", 20>>, <<"critical", 25>>,
        <<"urgent", 20>>, <<"emergency", 25>>, <<"broken", 20>>, <<"root cause", 25>>,
        <<"RCA", 25>>, <<"investigate", 20>>, <<"debug", 20>>, <<"troubleshoot", 20>>,
        <<"logs", 15>>, <<"error", 15>>, <<"failure", 15>>, <<"mitigate", 20>>,
        <<"rollback", 20>>, <<"hotfix", 25>>, <<"restore", 20>>, <<"recovering", 20>>
      >>,
      discovery |-> <<
        <<"discovery", 25>>, <<"research", 20>>, <<"explore", 20>>, <<"investigate", 15>>,
        <<"understand", 15>>, <<"requirements", 20>>, <<"user needs", 25>>,
        <<"pain points", 25>>, <<"tell me about", 20>>, <<"how do you", 15>>,
        <<"why do you", 15>>, <<"workflow", 15>>, <<"process", 10>>, <<"challenges", 15>>,
        <<"insights", 20>>, <<"findings", 20>>, <<"learned", 15>>
      >>,
      oneonone |-> <<
        <<"1:1", 30>>, <<"one-on-one", 30>>, <<"check-in", 25>>, <<"check in", 25>>,
        <<"how are you", 20>>, <<"how's it going", 20>>, <<"career", 25>>, <<"growth", 20>>,
        <<"feedback", 15>>, <<"performance", 15>>, <<"goals", 15>>, <<"development", 15>>,
        <<"feeling", 15>>, <<"comfortable", 10>>, <<"support", 10>>, <<"concerns", 15>>
      >>,
      brainstorm |-> <<
        <<"brainstorm", 30>>, <<"ideas", 25>>, <<"creative", 20>>, <<"think", 15>>,
        <<"what if", 25>>, <<"could we", 20>>, <<"maybe", 15>>, <<"possibilities", 20>>,
        <<"options", 15>>, <<"alternatives", 15>>, <<"crazy idea", 25>>,
        <<"wild idea", 25>>, <<"no bad ideas", 25>>, <<"throw out", 20>>,
        <<"building on", 15>>
      >>
    ]

\* math.log(1 + count) in hundredths, indexed by 1 + count (LnTable[1] = ln 1 = 0)
LnTable ==
    <<0, 69, 110, 139, 161, 179, 195, 208, 220, 230, 240, 248, 256, 264, 271, 277,
      283, 289, 294, 300, 304, 309, 314, 318, 322, 326, 330, 333, 337, 340, 343, 347>>

Log1p(count) == LnTable[1 + count]

\* a score of 20.0 in units of 1/1000 (the divisor of `top_score / 20.0`)
ScoreNorm == 20000

\* a structural bonus in units of 1/1000, from tenths
Bonus(tenths) == tenths * 100

\* ------------------------------------------------------------------------
\* HeuristicClassifier.detect_meeting_type
\* ------------------------------------------------------------------------

\* the inner loop with a contribution of weight * count, without the logarithm
RECURSIVE ScanKeywordsLinear(_, _, _, _)
ScanKeywordsLinear(text_lower, keywords_dict, k, acc) ==
    IF k > Len(keywords_dict) THEN acc
    ELSE LET count == StrCount(text_lower, Lower(keywords_dict[k][1]))
         IN  ScanKeywordsLinear(text_lower, keywords_dict, k + 1,
                 [acc EXCEPT !.type_score = @ + keywords_dict[k][2] * count * 100])

\* the inner loop over keywords_dict.items(): [type_score, found_keywords]
RECURSIVE ScanKeywords(_, _, _, _)
ScanKeywords(text_lower, keywords_dict, k, acc) ==
    IF k > Len(keywords_dict) THEN acc
    ELSE LET keyword == keywords_dict[k][1]
             weight == keywords_dict[k][2]
             keyword_lower == Lower(keyword)
             count == StrCount(text_lower, keyword_lower)
         IN  IF count > 0
             THEN ScanKeywords(text_lower, keywords_dict, k + 1,
                     [type_score |-> acc.type_score + weight * Log1p(count),
                      found_keywords |-> Append(acc.found_keywords,
                                                keyword \o " (" \o ToString(count) \o "x)")])
             ELSE ScanKeywords(text_lower, keywords_dict, k + 1, acc)

KeywordScan(text_lower, meeting_type) ==
    ScanKeywords(text_lower, MEETING_TYPE_KEYWORDS[meeting_type], 1,
                 [type_score |-> 0, found_keywords |-> <<>>])

\* sum(text_lower.count(w) for w in words)
RECURSIVE SumCounts(_, _)
SumCounts(text_lower, words) ==
    IF words = <<>> THEN 0
    ELSE StrCount(text_lower, Head(words)) + SumCounts(text_lower, Tail(words))

timeline_words == <<"yesterday", "today", "tomorrow", "last week", "next week", "this week">>
action_markers == <<"will", "should", "must", "need to", "have to">>

AddTo(scores, meeting_type, tenths) ==
    [scores EXCEPT ![meeting_type] = @ + Bonus(tenths)]

\* a structural step that adds the timeline bonus once for every segment
AddStructuralFeaturesPerSegment(scores, segs, text_lower) ==
    IF SumCounts(text_lower, timeline_words) > 3
    THEN [scores EXCEPT !["status"] = @ + Len(segs) * Bonus(20)]
    ELSE scores

\* the timeline test with the threshold itself included
TimelineReached(timeline_count) == timeline_count >= 3

\* `if timeline_count > 3:`
TimelineExceeded(timeline_count) == timeline_count > 3

\* _add_structural_features(scores, segments, text_lower)
AddStructuralFeatures(scores, segs, text_lower) ==
    LET sentences == SplitOn(text_lower, ".")
        questions == SelectSeq(sentences, LAMBDA s : Contains(s, "?"))
        \* question_density > 0.3, with question_density = len(questions) / len(sentences)
        high_density == Len(sentences) > 0 /\ 10 * Len(questions) > 3 * Len(sentences)
        s1 == IF high_density
              THEN AddTo(AddTo(AddTo(scores, "discovery", 20), "brainstorm", 15), "status", 10)
              ELSE scores
        timeline_count == SumCounts(text_lower, timeline_words)
        s2 == IF TimelineExceeded(timeline_count)
              THEN AddTo(AddTo(s1, "status", 20), "planning", 15)
              ELSE s1
        action_count == SumCounts(text_lower, action_markers)
        s3 == IF action_count > 5
              THEN AddTo(AddTo(s2, "planning", 15), "incident", 10)
              ELSE s2
    IN  s3

\* `if segments:` - a list is truthy when it is not None and not empty
Truthy(segs) == segs # None /\ segs # <<>>

\* the scores dict after the keyword loop and the structural features
FinalScores(transcript_text, segs) ==
    LET text_lower == Lower(transcript_text)
        scores == [t \in {MeetingTypes[i] : i \in 1..Len(MeetingTypes)} |->
                      KeywordScan(text_lower, t).type_score]
    IN  IF Truthy(segs) THEN AddStructuralFeatures(scores, segs, text_lower) ELSE scores

\* sorted(items, key=score, reverse=True): stable, so equal scores keep dict order
RECURSIVE InsertSorted(_, _)
InsertSorted(sorted, item) ==
    IF sorted = <<>> THEN <<item>>
    ELSE IF Head(sorted)[2] >= item[2]
         THEN <<Head(sorted)>> \o InsertSorted(Tail(sorted), item)
         ELSE <<item>> \o sorted

RECURSIVE SortItems(_, _, _)
SortItems(items, i, acc) ==
    IF i > Len(items) THEN acc ELSE SortItems(items, i + 1, InsertSorted(acc, items[i]))

SortedTypes(scores) ==
    SortItems([i \in 1..Len(MeetingTypes) |-> <<MeetingTypes[i], scores[MeetingTypes[i]]>>], 1, <<>>)

\* xs[a-1:b-1] with Python's clipping, positions from 1
Slice(xs, a, b) == SubSeq(xs, a, Min(b, Len(xs)))

\* the normalisation without its clamp: score / 20.0
NormalizedUnclamped(score) == Frac(score, ScoreNorm)

\* min(score / 20.0, 1.0)
Normalized(score) == Frac(Min(score, ScoreNorm), ScoreNorm)

\* the margin boost without its 0.5 floor: raw_confidence * (0.5 * margin)
ConfidenceNoFloor(sorted_types) ==
    LET top_score == sorted_types[1][2]
        second_score == sorted_types[2][2]
        margin == IF top_score > 0 THEN Frac(top_score - second_score, top_score) ELSE FZero
    IN  FMul(Normalized(top_score), FMul(FHalf, margin))

\* confidence of the non-fallback path
Confidence(sorted_types) ==
    LET top_score == sorted_types[1][2]
    IN  IF Len(sorted_types) > 1
        THEN LET second_score == sorted_types[2][2]
                 margin == IF top_score > 0 THEN Frac(top_score - second_score, top_score) ELSE FZero
                 raw_confidence == Normalized(top_score)
             IN  FMul(raw_confidence, FAdd(FHalf, FMul(FHalf, margin)))
        ELSE Normalized(top_score)

FallbackEvidence == <<"No strong indicators found">>

DetectMeetingType(transcript_text, segs) ==
    LET text_lower == Lower(transcript_text)
        scores == FinalScores(transcript_text, segs)
        sorted_types == SortedTypes(scores)
    IN  IF sorted_types = <<>> \/ sorted_types[1][2] = 0
        THEN [detected_type |-> "talk",
              confidence |-> FZero,
              evidence |-> FallbackEvidence,
              secondary_types |-> [i \in 1..Min(5, Len(sorted_types)) |-> <<sorted_types[i][1], FZero>>],
              engine |-> "heuristic"]
        ELSE LET top_type == sorted_types[1][1]
                 tail == Slice(sorted_types, 2, 6)
             IN  [detected_type |-> top_type,
                  confidence |-> Confidence(sorted_types),
                  evidence |-> Slice(KeywordScan(text_lower, top_type).found_keywords, 1, 5),
                  secondary_types |-> [i \in 1..Len(tail) |-> <<tail[i][1], Normalized(tail[i][2])>>],
                  engine |-> "heuristic"]

\* ------------------------------------------------------------------------
\* Classification: the call detect_meeting_type(transcript_text, segments)
\* ------------------------------------------------------------------------

\* the number of vocabulary words of a generated transcript text
MaxWords == 2

ClassifierVocabulary == <<"status", "presentation", "roadmap", "why?", "Feedback.", "ok">>

RECURSIVE WordTexts(_)
WordTexts(n) ==
    IF n = 0 THEN {""}
    ELSE LET shorter == WordTexts(n - 1)
         IN  shorter \cup
             { IF t = "" THEN ClassifierVocabulary[w] ELSE t \o " " \o ClassifierVocabulary[w] :
                 t \in shorter, w \in 1..Len(ClassifierVocabulary) }

ScenarioTexts ==
    { "status update blockers sprint",
      "status update planning roadmap",
      "yesterday today tomorrow next week",
      "we will and should and must and need to and have to and will",
      "status update progress blockers blocked impediments stand-up standup scrum sprint "
        \o "yesterday today tomorrow this week last week next week working on finished "
        \o "completed in progress waiting for",
      \* three questions in ten sentences, three timeline words, five action markers
      "a?.b?.c?.d.e.f.g.h.i.j yesterday today tomorrow "
        \o "we will and should and must and need to and have to",
      "a?.b?.c?.d.e.f.g.h.i yesterday today tomorrow today "
        \o "we will and should and must and need to and have to and must" }

ClassifierTexts == WordTexts(MaxWords) \cup ScenarioTexts

\* the optional segments argument: omitted, an empty list, or a list of segments
SegmentArgs ==
    { None, <<>>,
      <<[id |-> 0, start |-> 0, end |-> 1000, text |-> "ok"]>>,
      <<[id |-> 0, start |-> 0, end |-> 500, text |-> "why? why?"],
        [id |-> 1, start |-> 5000, end |-> 9000,
         text |-> "yesterday today tomorrow next week we will"]>>,
      <<[id |-> 7, start |-> 2000, end |-> 2000, text |-> ""],
        [id |-> 8, start |-> 2000, end |-> 2100, text |-> "status update"],
        [id |-> 9, start |-> 2050, end |-> 3000, text |-> "must should will"]>> }

NoCall == [unused |-> TRUE]

InitClassify ==
    /\ pc = "start"
    /\ cls \in [transcript_text : ClassifierTexts, segments : SegmentArgs,
                scores : {None}, result : {None}]
    /\ stut = NoCall
    /\ heap = <<>>
    /\ norm = NoCall
    /\ rep = NoCall
    /\ nums = NoCall
    /\ stitch = NoCall
    /\ pipe = NoCall
    /\ api = NoCall
    /\ menu = NoCall

Classify ==
    /\ pc = "start"
    /\ cls' = [cls EXCEPT !.scores = FinalScores(cls.transcript_text, cls.segments),
                          !.result = DetectMeetingType(cls.transcript_text, cls.segments)]
    /\ pc' = "classified"
    /\ UNCHANGED <<stut, heap, norm, rep, nums, stitch, pipe, api, menu>>

NextClassify == Classify

SpecClassify == InitClassify /\ [][NextClassify]_vars

\* ------------------------------------------------------------------------
\* Properties of detect_meeting_type
\* ------------------------------------------------------------------------

Classified == pc = "classified"

IsFallback(r) ==
    r.detected_type = "talk" /\ r.confidence = FZero /\ r.evidence = FallbackEvidence

AllScoresZero == \A i \in 1..Len(MeetingTypes) : cls.scores[MeetingTypes[i]] = 0

\* C1: detect_meeting_type returns the fallback result (talk, confidence 0.0, evidence
\* ["No strong indicators found"]) if and only if every type's final score (keyword score
\* plus structural bonus) is 0; it does so for empty text; and on the non-fallback path
\* the confidence is never 0.0.
C1_FallbackIffAllScoresZero ==
    Classified =>
        /\ IsFallback(cls.result) <=> AllScoresZero
        /\ cls.transcript_text = "" => IsFallback(cls.result)
        /\ ~AllScoresZero => cls.result.confidence.n > 0

\* a non-empty text in which no keyword occurs falls back
C1_Witness ==
    /\ Classified
    /\ cls.transcript_text # ""
    /\ AllScoresZero
    /\ IsFallback(cls.result)

SecondaryExcludesDetected(r) ==
    \A i \in 1..Len(r.secondary_types) : r.secondary_types[i][1] # r.detected_type

SecondarySortedDescending(r) ==
    \A i \in 1..(Len(r.secondary_types) - 1) :
        FLeq(r.secondary_types[i + 1][2], r.secondary_types[i][2])

\* C2: in every result of detect_meeting_type, the talk fallback included, secondary_types
\* does not contain detected_type and is sorted by score in non-increasing order.
C2_SecondaryTypesWellFormed ==
    Classified => SecondaryExcludesDetected(cls.result) /\ SecondarySortedDescending(cls.result)

\* C3: for every text and every optional segment list, the confidence lies in [0, 1], on
\* the margin-boosted path and on the fallback path.
C3_ConfidenceInUnitInterval ==
    Classified =>
        /\ cls.result.confidence.d > 0
        /\ FLeq(FZero, cls.result.confidence)
        /\ FLeq(cls.result.confidence, FOne)

\* the clamp of min(top_score / 20.0, 1.0) is what acts: a top score above 20.0
C3_Witness ==
    /\ Classified
    /\ ~IsFallback(cls.result)
    /\ cls.scores[cls.result.detected_type] > ScoreNorm
    /\ FLess(FHalf, cls.result.confidence)

ScenarioA == "status update blockers sprint"

\* C4: Scenario A: classifying "status update blockers sprint" with no segments yields
\* detected_type status with confidence greater than 0.5.
C4_ScenarioA ==
    (Classified /\ cls.transcript_text = ScenarioA /\ cls.segments = None) =>
        cls.result.detected_type = "status" /\ FLess(FHalf, cls.result.confidence)

\* ------------------------------------------------------------------------
\* transcriber.py: regular-expression primitives
\* ------------------------------------------------------------------------

\* regex \b at the gap before position i (between s[i-1] and s[i])
WordBoundaryAt(s, i) ==
    LET before == i > 1 /\ i - 1 <= Len(s) /\ IsWordChar(CharAt(s, i - 1))
        after == i >= 1 /\ i <= Len(s) /\ IsWordChar(CharAt(s, i))
    IN  before # after

\* greedy \w+ from position i: the last position of the run, 0 if s[i] is no word character
WordRunEnd(s, i) ==
    IF i > Len(s) \/ ~IsWordChar(CharAt(s, i)) THEN 0
    ELSE LET stops == { j \in i..Len(s) : j = Len(s) \/ ~IsWordChar(CharAt(s, j + 1)) }
         IN  CHOOSE j \in stops : \A k \in stops : j <= k

\* greedy \s+ from position i: the last position of the run, 0 if s[i] is no whitespace
SpaceRunEnd(s, i) ==
    IF i > Len(s) \/ ~IsSpace(CharAt(s, i)) THEN 0
    ELSE LET stops == { j \in i..Len(s) : j = Len(s) \/ ~IsSpace(CharAt(s, j + 1)) }
         IN  CHOOSE j \in stops : \A k \in stops : j <= k

\* the literal matched as it is written, without re.IGNORECASE
MatchesCaseAt(s, i, literal) ==
    /\ i + Len(literal) - 1 <= Len(s)
    /\ SubSeq(s, i, i + Len(literal) - 1) = literal

\* a literal matched under re.IGNORECASE at position i
MatchesIgnoreCaseAt(s, i, literal) ==
    /\ i + Len(literal) - 1 <= Len(s)
    /\ LowerChar(CharAt(s, i)) = LowerChar(CharAt(literal, 1))
    /\ Lower(SubSeq(s, i, i + Len(literal) - 1)) = Lower(literal)

\* the literal occurs somewhere in s, ignoring case
OccursIgnoreCase(s, literal) == \E k \in 1..Len(s) : MatchesIgnoreCaseAt(s, k, literal)

\* ------------------------------------------------------------------------
\* Transcriber._reduce_stutters: re.sub(r'\b(\w+)(\s+\1\b)+(?!\w)', group 1, text, IGNORECASE)
\* ------------------------------------------------------------------------

\* one repetition \s+\1\b after position e (the last matched position): its last
\* position, 0 if it does not match
RepetitionEnd(s, e, group1) ==
    LET sp == SpaceRunEnd(s, e + 1)
        last == sp + Len(group1)
    IN  IF sp = 0 THEN 0
        ELSE IF MatchesIgnoreCaseAt(s, sp + 1, group1) /\ WordBoundaryAt(s, last + 1)
             THEN last
             ELSE 0

\* the repetition group without its +: (\s+\1\b) matched once only
RepetitionsOnce(s, e, group1) == e

\* (\s+\1\b)* greedily after position e: the last position matched (e if none)
RECURSIVE Repetitions(_, _, _)
Repetitions(s, e, group1) ==
    LET r == RepetitionEnd(s, e, group1)
    IN  IF r = 0 THEN e ELSE Repetitions(s, r, group1)

\* the whole pattern at position i: the last position of the match, 0 if none.
\* The group (\w+) can only be the maximal run (a shorter one is followed by a word
\* character, not by \s), and after \1\b the lookahead (?!\w) always holds.
StutterMatchEnd(s, i) ==
    LET e1 == WordRunEnd(s, i)
    IN  IF ~WordBoundaryAt(s, i) \/ e1 = 0 THEN 0
        ELSE LET group1 == SubSeq(s, i, e1)
                 first == RepetitionEnd(s, e1, group1)
             IN  IF first = 0 THEN 0
                 ELSE LET j == Repetitions(s, first, group1)
                      IN  IF j <= Len(s) /\ j + 1 <= Len(s) /\ IsWordChar(CharAt(s, j + 1)) THEN 0 ELSE j

\* re.sub from position i on: leftmost matches, non-overlapping, each replaced by group 1
RECURSIVE ReduceStuttersFrom(_, _)
ReduceStuttersFrom(s, i) ==
    LET starts == { k \in i..Len(s) : StutterMatchEnd(s, k) # 0 }
    IN  IF starts = {} THEN SubSeq(s, i, Len(s))
        ELSE LET k == CHOOSE x \in starts : \A y \in starts : x <= y
                 j == StutterMatchEnd(s, k)
             IN  SubSeq(s, i, k - 1) \o SubSeq(s, k, WordRunEnd(s, k)) \o ReduceStuttersFrom(s, j + 1)

ReduceStutters(text) == ReduceStuttersFrom(text, 1)

\* ------------------------------------------------------------------------
\* Stutter reduction applied to a text, and again to its result
\* ------------------------------------------------------------------------

\* the length of a generated text
MaxStutterLen == 5

StutterAlphabet == {"a", "A", "b", " ", ","}

RECURSIVE StringsUpTo(_, _)
StringsUpTo(alphabet, n) ==
    IF n = 0 THEN {""}
    ELSE LET shorter == StringsUpTo(alphabet, n - 1)
         IN  shorter \cup { t \o c : t \in shorter, c \in alphabet }

StutterScenarios ==
    { "I I I think", "We we We need", "the the the", "this is is good", "a  a\ta", "no no, no no" }

StutterTexts == StringsUpTo(StutterAlphabet, MaxStutterLen) \cup StutterScenarios

InitStutter ==
    /\ pc = "start"
    /\ stut \in [text : StutterTexts, once : {None}, twice : {None}]
    /\ cls = NoCall
    /\ heap = <<>>
    /\ norm = NoCall
    /\ rep = NoCall
    /\ nums = NoCall
    /\ stitch = NoCall
    /\ pipe = NoCall
    /\ api = NoCall
    /\ menu = NoCall

\* once = _reduce_stutters(text)
ReduceOnce ==
    /\ pc = "start"
    /\ stut' = [stut EXCEPT !.once = ReduceStutters(stut.text)]
    /\ pc' = "reduced"
    /\ UNCHANGED <<cls, heap, norm, rep, nums, stitch, pipe, api, menu>>

\* twice = _reduce_stutters(once)
ReduceTwice ==
    /\ pc = "reduced"
    /\ stut' = [stut EXCEPT !.twice = ReduceStutters(stut.once)]
    /\ pc' = "reduced_twice"
    /\ UNCHANGED <<cls, heap, norm, rep, nums, stitch, pipe, api, menu>>

NextStutter == ReduceOnce \/ ReduceTwice

SpecStutter == InitStutter /\ [][NextStutter]_vars

\* C10: stutter reduction is idempotent: _reduce_stutters(_reduce_stutters(t)) equals
\* _reduce_stutters(t) for every text t.
C10_StutterReductionIdempotent ==
    pc = "reduced_twice" => stut.twice = stut.once

\* a run of three repeated words was collapsed by the first application
C10_Witness ==
    /\ pc = "reduced_twice"
    /\ stut.text = "A a a"
    /\ stut.once = "A"
    /\ stut.twice = "A"

\* the text holds word characters and whitespace only
OnlyWordsAndSpaces(text) ==
    \A i \in 1..Len(text) : IsWordChar(CharAt(text, i)) \/ IsSpace(CharAt(text, i))

\* the tokens of a text with their places: <<first position, last position>> of every
\* maximal run of non-whitespace characters
RECURSIVE TokenSpansFrom(_, _)
TokenSpansFrom(s, from) ==
    LET keep == { i \in from..Len(s) : ~IsSpace(CharAt(s, i)) }
    IN  IF keep = {} THEN <<>>
        ELSE LET i == CHOOSE x \in keep : \A y \in keep : x <= y
                 ends == { j \in i..Len(s) : j = Len(s) \/ IsSpace(CharAt(s, j + 1)) }
                 j == CHOOSE x \in ends : \A y \in ends : x <= y
             IN  <<<<i, j>>>> \o TokenSpansFrom(s, j + 1)

\* the tokens of a text, as str.split() gives them
TokensOf(s) ==
    LET spans == TokenSpansFrom(s, 1)
    IN  [k \in 1..Len(spans) |-> SubSeq(s, spans[k][1], spans[k][2])]

\* token k opens a maximal run of tokens that are equal case-insensitively
OpensRun(s, spans, k) ==
    k = 1 \/ Lower(SubSeq(s, spans[k][1], spans[k][2]))
                 # Lower(SubSeq(s, spans[k - 1][1], spans[k - 1][2]))

\* the text with every token that does not open a run taken out, together with the
\* whitespace in front of it
RunsCollapsed(s) ==
    LET spans == TokenSpansFrom(s, 1)
        piece[k \in 0..Len(spans)] ==
            IF k = 0 THEN ""
            ELSE piece[k - 1] \o
                 (IF OpensRun(s, spans, k)
                  THEN SubSeq(s, IF k = 1 THEN 1 ELSE spans[k - 1][2] + 1, spans[k][2])
                  ELSE "")
    IN  IF spans = <<>> THEN s
        ELSE piece[Len(spans)] \o SubSeq(s, spans[Len(spans)][2] + 1, Len(s))

\* the tokens that open a run, in order
RunOpeners(s) ==
    LET spans == TokenSpansFrom(s, 1)
    IN  SelectSeq([k \in 1..Len(spans) |-> <<k, SubSeq(s, spans[k][1], spans[k][2])>>],
                  LAMBDA t : OpensRun(s, spans, t[1]))

\* C23: for a text of word tokens separated by whitespace, the tokens of
\* _reduce_stutters(text) are the first tokens, in their original casing, of the maximal
\* runs of adjacent tokens that are equal case-insensitively, in order: a run of two or
\* more is replaced by its first token, every other token is kept, and equal tokens that
\* are not adjacent are both kept. The text itself is the input without the dropped
\* tokens and the whitespace in front of them.
C23_RunsReplacedByFirstToken ==
    (pc = "reduced" /\ OnlyWordsAndSpaces(stut.text)) =>
        /\ TokensOf(stut.once) =
               [k \in 1..Len(RunOpeners(stut.text)) |-> RunOpeners(stut.text)[k][2]]
        /\ stut.once = RunsCollapsed(stut.text)

\* "We we We need" becomes "We need"
C23_Witness ==
    /\ pc = "reduced"
    /\ stut.text = "We we We need"
    /\ stut.once = "We need"

\* equal tokens that are not adjacent are both kept, next to a run that is collapsed
C23_WitnessApart ==
    /\ pc = "reduced"
    /\ stut.text = "a b a"
    /\ stut.once = "a b a"

\* ------------------------------------------------------------------------
\* The patterns of _filter_fillers and _normalize_numbers_dates
\* ------------------------------------------------------------------------

\* \b<literal>\b under re.IGNORECASE: the last position of the match at i, 0 if none
LiteralWordEnd(s, i, literal) ==
    LET j == i + Len(literal) - 1
    IN  IF WordBoundaryAt(s, i) /\ MatchesIgnoreCaseAt(s, i, literal) /\ WordBoundaryAt(s, j + 1)
        THEN j ELSE 0

\* greedy <ch>+ under re.IGNORECASE from position i: the last position, 0 if none
CharRunEnd(s, i, ch) ==
    IF i > Len(s) \/ LowerChar(CharAt(s, i)) # ch THEN 0
    ELSE LET stops == { j \in i..Len(s) : j = Len(s) \/ LowerChar(CharAt(s, j + 1)) # ch }
         IN  CHOOSE j \in stops : \A k \in stops : j <= k

\* \b<stem><ch>+\b under re.IGNORECASE, as in \bum+\b: only the maximal run can be
\* followed by \b, because a shorter one is followed by <ch>, a word character
StemRunEnd(s, i, stem, ch) ==
    IF ~(WordBoundaryAt(s, i) /\ MatchesIgnoreCaseAt(s, i, stem)) THEN 0
    ELSE LET j == CharRunEnd(s, i + Len(stem), ch)
         IN  IF j # 0 /\ WordBoundaryAt(s, j + 1) THEN j ELSE 0

\* the first alternative of alts matching at i as <alt>\b, its last position; 0 if none
RECURSIVE AlternativeEnd(_, _, _)
AlternativeEnd(s, i, alts) ==
    IF alts = <<>> THEN 0
    ELSE LET j == i + Len(Head(alts)) - 1
         IN  IF MatchesIgnoreCaseAt(s, i, Head(alts)) /\ WordBoundaryAt(s, j + 1)
             THEN j
             ELSE AlternativeEnd(s, i, Tail(alts))

\* \b<first>\s+(<alt>|...)\b under re.IGNORECASE: [sp |-> last whitespace position,
\* end |-> last position of the match], end = 0 if none
PhraseMatch(s, i, first, alts) ==
    IF ~(MatchesIgnoreCaseAt(s, i, first) /\ WordBoundaryAt(s, i)) THEN [sp |-> 0, end |-> 0]
    ELSE LET sp == SpaceRunEnd(s, i + Len(first))
         IN  IF sp = 0 THEN [sp |-> 0, end |-> 0]
             ELSE [sp |-> sp, end |-> AlternativeEnd(s, sp + 1, alts)]

\* ------------------------------------------------------------------------
\* re.sub(pattern, repl, s): ends[k] is the last position of the pattern's match
\* starting at k (0 if none; no pattern here matches the empty string), repls[k] the
\* text put in place of that match
\* ------------------------------------------------------------------------

ReSub(s, ends, repls) ==
    LET hits == { k \in 1..Len(s) : ends[k] # 0 }
        \* the output from position i on: leftmost match first, then on after its end
        out[i \in 1..(Len(s) + 1)] ==
            LET starts == { k \in hits : k >= i }
            IN  IF starts = {} THEN SubSeq(s, i, Len(s))
                ELSE LET k == CHOOSE x \in starts : \A y \in starts : x <= y
                     IN  SubSeq(s, i, k - 1) \o repls[k] \o out[ends[k] + 1]
    IN  out[1]

\* re.sub(pattern, '', s): every match removed
Remove(s, ends) == ReSub(s, ends, [k \in 1..Len(s) |-> ""])

\* ------------------------------------------------------------------------
\* Transcriber._filter_fillers
\* ------------------------------------------------------------------------

\* re.sub(r'\s+', ' ', result)
CollapseSpaces(s) ==
    ReSub(s, [k \in 1..Len(s) |-> SpaceRunEnd(s, k)], [k \in 1..Len(s) |-> " "])

\* str.strip()
Strip(s) ==
    LET keep == { i \in 1..Len(s) : ~IsSpace(CharAt(s, i)) }
    IN  IF keep = {} THEN ""
        ELSE SubSeq(s, CHOOSE i \in keep : \A k \in keep : i <= k,
                       CHOOSE i \in keep : \A k \in keep : i >= k)

\* re.sub(r'\bum+\b', '', s) and the like for uh+, hmm+
RemoveStem(s, stem, ch) == Remove(s, [k \in 1..Len(s) |-> StemRunEnd(s, k, stem, ch)])

\* re.sub(r'\b(you know|I mean)\b', '', s)
RemoveAlternatives(s, alts) ==
    Remove(s, [k \in 1..Len(s) |->
                  IF WordBoundaryAt(s, k) THEN AlternativeEnd(s, k, alts) ELSE 0])

\* re.sub(r'\bso like\b', '', s) and the like for kind of like
RemoveLiteral(s, literal) == Remove(s, [k \in 1..Len(s) |-> LiteralWordEnd(s, k, literal)])

\* the filler_patterns applied in order, then the spaces cleaned up
FilterFillers(text) ==
    LET r1 == RemoveStem(text, "u", "m")
        r2 == RemoveStem(r1, "u", "h")
        r3 == RemoveStem(r2, "hm", "m")
        r4 == RemoveAlternatives(r3, <<"you know", "I mean">>)
        r5 == RemoveLiteral(r4, "so like")
        r6 == RemoveLiteral(r5, "kind of like")
    IN  Strip(CollapseSpaces(r6))

\* ------------------------------------------------------------------------
\* Transcriber._normalize_numbers_dates
\* ------------------------------------------------------------------------

months ==
    << <<"january", "January">>, <<"february", "February">>, <<"march", "March">>,
       <<"april", "April">>, <<"may", "May">>, <<"june", "June">>,
       <<"july", "July">>, <<"august", "August">>, <<"september", "September">>,
       <<"october", "October">>, <<"november", "November">>, <<"december", "December">> >>

number_words ==
    << <<"zero", "0">>, <<"one", "1">>, <<"two", "2">>, <<"three", "3">>, <<"four", "4">>,
       <<"five", "5">>, <<"six", "6">>, <<"seven", "7">>, <<"eight", "8">>, <<"nine", "9">>,
       <<"ten", "10">>, <<"eleven", "11">>, <<"twelve", "12">>, <<"thirteen", "13">>,
       <<"fourteen", "14">>, <<"fifteen", "15">>, <<"sixteen", "16">>, <<"seventeen", "17">>,
       <<"eighteen", "18">>, <<"nineteen", "19">>, <<"twenty", "20">>, <<"thirty", "30">>,
       <<"forty", "40">>, <<"fifty", "50">>, <<"sixty", "60">>, <<"seventy", "70">>,
       <<"eighty", "80">>, <<"ninety", "90">> >>

unit_suffixes == <<"am", "pm", "o'clock", "dollars", "percent">>

\* re.sub(rf'\b{month_lower}\s+{num_word}\b', f"{month_title} {num_digit}", result, IGNORECASE)
SubMonthNumber(result, month, num) ==
    ReSub(result,
          [k \in 1..Len(result) |-> PhraseMatch(result, k, month[1], <<num[1]>>).end],
          [k \in 1..Len(result) |-> month[2] \o " " \o num[2]])

\* the inner loop over number_words.items() for one month: the patterns of
\* number_words[lo..hi] applied in order (the range is halved to keep the evaluation shallow)
RECURSIVE MonthNumbersLoop(_, _, _, _)
MonthNumbersLoop(result, month, lo, hi) ==
    IF lo > hi THEN result
    ELSE IF lo = hi THEN SubMonthNumber(result, month, number_words[lo])
    ELSE LET mid == (lo + hi) \div 2
             r == MonthNumbersLoop(result, month, lo, mid)
         IN  IF Evaluated(r) THEN MonthNumbersLoop(r, month, mid + 1, hi) ELSE r

\* the outer loop over months.items(): months[lo..hi] in order
RECURSIVE MonthsLoop(_, _, _)
MonthsLoop(result, lo, hi) ==
    IF lo > hi THEN result
    ELSE IF lo = hi
         THEN \* a text in which the month's name does not occur is matched by none of
              \* the month's patterns, and the inner loop returns it unchanged
              IF OccursIgnoreCase(result, months[lo][1])
              THEN MonthNumbersLoop(result, months[lo], 1, Len(number_words))
              ELSE result
    ELSE LET mid == (lo + hi) \div 2
             r == MonthsLoop(result, lo, mid)
         IN  IF Evaluated(r) THEN MonthsLoop(r, mid + 1, hi) ELSE r

\* the number word rewritten wherever it stands as a word, whatever follows it
SubNumberAnywhere(result, num) ==
    ReSub(result,
          [k \in 1..Len(result) |-> LiteralWordEnd(result, k, num[1])],
          [k \in 1..Len(result) |-> num[2]])

\* re.sub(rf'\b{num_word}\s+(am|pm|o\'clock|dollars|percent)\b', rf'{num_digit} \1', result, IGNORECASE)
SubNumberUnit(result, num) ==
    ReSub(result,
          [k \in 1..Len(result) |-> PhraseMatch(result, k, num[1], unit_suffixes).end],
          [k \in 1..Len(result) |->
              num[2] \o " " \o SubSeq(result, PhraseMatch(result, k, num[1], unit_suffixes).sp + 1,
                                      PhraseMatch(result, k, num[1], unit_suffixes).end)])

\* the loop over number_words.items() of the unit-suffix patterns: number_words[lo..hi]
RECURSIVE NumberUnitsLoop(_, _, _)
NumberUnitsLoop(result, lo, hi) ==
    IF lo > hi THEN result
    ELSE IF lo = hi THEN SubNumberUnit(result, number_words[lo])
    ELSE LET mid == (lo + hi) \div 2
             r == NumberUnitsLoop(result, lo, mid)
         IN  IF Evaluated(r) THEN NumberUnitsLoop(r, mid + 1, hi) ELSE r

\* the month patterns alone, the number-unit patterns left out
NormalizeMonthsOnly(text) == MonthsLoop(text, 1, Len(months))

\* the month patterns, then the number-unit patterns
NormalizeNumbersDates(text) ==
    LET result == MonthsLoop(text, 1, Len(months))
    IN  IF Evaluated(result) THEN NumberUnitsLoop(result, 1, Len(number_words)) ELSE result

\* ------------------------------------------------------------------------
\* Python objects. heap[a] is the object at address a (addresses from 1; 0 is "no
\* object"): a transcription dict [kind "transcription", text, segments -> list],
\* a list [kind "list", items], or a segment dict [kind "segment", id, start, end, text,
\* words -> list, or 0 when the segment has no "words" key].
\* A value is what an object holds with every reference followed.
\* ------------------------------------------------------------------------

\* the value of the segment dict at address a
SegmentValue(h, a) ==
    [id |-> h[a].id, start |-> h[a].start, end |-> h[a].end, text |-> h[a].text,
     has_words |-> h[a].words # 0,
     words |-> IF h[a].words # 0 THEN h[h[a].words].items ELSE <<>>]

\* the value of the transcription dict at address a
TranscriptionValue(h, a) ==
    LET items == h[h[a].segments].items
    IN  [text |-> h[a].text,
         segments |-> [i \in 1..Len(items) |-> SegmentValue(h, items[i])]]

\* new objects for the segment values vs, after those of h: [heap, addrs]
StoreSegments(h, vs) ==
    LET build[i \in 0..Len(vs)] ==
            IF i = 0 THEN [heap |-> h, addrs |-> <<>>]
            ELSE LET b == build[i - 1]
                     v == vs[i]
                     h1 == IF v.has_words
                           THEN Append(b.heap, [kind |-> "list", items |-> v.words])
                           ELSE b.heap
                     w == IF v.has_words THEN Len(h1) ELSE 0
                     h2 == Append(h1, [kind |-> "segment", id |-> v.id, start |-> v.start,
                                       end |-> v.end, text |-> v.text, words |-> w])
                 IN  [heap |-> h2, addrs |-> Append(b.addrs, Len(h2))]
    IN  build[Len(vs)]

\* new objects for a transcription value: [heap, addr]
StoreTranscription(h, v) ==
    LET segs == StoreSegments(h, v.segments)
        h1 == Append(segs.heap, [kind |-> "list", items |-> segs.addrs])
        h2 == Append(h1, [kind |-> "transcription", text |-> v.text, segments |-> Len(h1)])
    IN  [heap |-> h2, addr |-> Len(h2)]

\* copy.copy(transcription): a new dict that shares the segment list and the segments
ShallowCopy(h, a) == [heap |-> Append(h, h[a]), addr |-> Len(h) + 1]

\* copy.deepcopy(transcription): new objects all the way down
DeepCopy(h, a) == StoreTranscription(h, TranscriptionValue(h, a))

\* ------------------------------------------------------------------------
\* Transcriber._format_timestamp, TranscriptChange
\* ------------------------------------------------------------------------

\* f"{n:02d}"
Pad2(n) == IF n < 10 THEN "0" \o ToString(n) ELSE ToString(n)

\* format_seconds: int(seconds // 60), int(seconds % 60), the time in milliseconds
FormatSeconds(ms) ==
    LET seconds == ms \div 1000
    IN  Pad2(seconds \div 60) \o ":" \o Pad2(seconds % 60)

FormatTimestamp(start, end) == FormatSeconds(start) \o "-" \o FormatSeconds(end)

\* f"{pause_duration:.3f}", the pause in milliseconds
FormatPause(ms) ==
    LET a == IF ms < 0 THEN 0 - ms ELSE ms
        frac == a % 1000
        digits == IF frac < 10 THEN "00" \o ToString(frac)
                  ELSE IF frac < 100 THEN "0" \o ToString(frac)
                  ELSE ToString(frac)
    IN  (IF ms < 0 THEN "-" ELSE "") \o ToString(a \div 1000) \o "." \o digits

TranscriptChange(segment_id, timestamp, before, after, reason, change_type) ==
    [segment_id |-> segment_id, timestamp |-> timestamp, before |-> before,
     after |-> after, reason |-> reason, change_type |-> change_type]

\* ------------------------------------------------------------------------
\* Transcriber.normalize_transcript: the per-segment text stages (steps 1, 2 and 4)
\* ------------------------------------------------------------------------

\* for seg in segs: set seg["text"] to the stage's rewrite of it, new_texts[i] for
\* segs[i], and log a change if it differs
TextStage(h, segs, changes, new_texts, reason) ==
    LET step[i \in 0..Len(segs)] ==
            IF i = 0 THEN [heap |-> h, changes |-> changes]
            ELSE LET st == step[i - 1]
                     seg == st.heap[segs[i]]
                     original_text == seg.text
                     new_text == new_texts[i]
                 IN  IF new_text # original_text
                     THEN [heap |-> [st.heap EXCEPT ![segs[i]].text = new_text],
                           changes |-> Append(st.changes,
                               TranscriptChange(seg.id, FormatTimestamp(seg.start, seg.end),
                                                original_text, new_text, reason, "normalization"))]
                     ELSE st
    IN  step[Len(segs)]

\* ------------------------------------------------------------------------
\* Transcriber._stitch_sentences
\* ------------------------------------------------------------------------

\* 0.5 s in milliseconds
StitchPauseMs == 500

\* the comparison with < in place of <=
PauseBelowThreshold(pause_duration) == pause_duration < StitchPauseMs

\* if pause_duration <= 0.5
PauseAllowsStitch(pause_duration) == pause_duration <= StitchPauseMs

\* the update without its second assignment: the end is left as it is
MergedSegmentKeepsEnd(current_segment, curr_seg) ==
    [current_segment EXCEPT !.text = Strip(@) \o " " \o Strip(curr_seg.text)]

\* current_segment after text and end are updated from curr_seg
MergedSegment(current_segment, curr_seg) ==
    [current_segment EXCEPT
        !.text = Strip(@) \o " " \o Strip(curr_seg.text),
        !.end = curr_seg.end]

\* the logged change with the merged segment named in place of the previous one
StitchChangeOfRun(merged, prev_seg, curr_seg, pause_duration) ==
    TranscriptChange(merged.id,
                     FormatTimestamp(merged.start, merged.end),
                     "[Segment " \o ToString(merged.id) \o "] + [Segment "
                         \o ToString(curr_seg.id) \o "]",
                     "[Stitched segment " \o ToString(merged.id) \o "]",
                     "Stitched across " \o FormatPause(pause_duration) \o "s pause",
                     "normalization")

\* changes.append(TranscriptChange(...)) of a merge: merged is current_segment after
\* the update
StitchChange(merged, prev_seg, curr_seg, pause_duration) ==
    TranscriptChange(merged.id,
                     FormatTimestamp(merged.start, merged.end),
                     "[Segment " \o ToString(prev_seg.id) \o "] + [Segment "
                         \o ToString(curr_seg.id) \o "]",
                     "[Stitched segment " \o ToString(merged.id) \o "]",
                     "Stitched across " \o FormatPause(pause_duration) \o "s pause",
                     "normalization")

\* _stitch_sentences from "stitched = []" on, for a list that has a first segment
StitchLoop(h, segments) ==
    LET items == h[segments].items
        \* the loop state after iteration i (i = 1: before the loop);
        \* current is the dict current_segment, put on the heap when it is appended
        loop[i \in 1..Len(items)] ==
            IF i = 1
            THEN [heap |-> h, stitched |-> <<>>, current |-> h[items[1]], changes |-> <<>>]
            ELSE LET st == loop[i - 1]
                     prev_seg == st.heap[items[i - 1]]
                     curr_seg == st.heap[items[i]]
                     pause_duration == curr_seg.start - prev_seg.end
                 IN  IF PauseAllowsStitch(pause_duration)
                     THEN LET merged == MergedSegment(st.current, curr_seg)
                              h1 == IF merged.words # 0 /\ curr_seg.words # 0
                                    THEN [st.heap EXCEPT ![merged.words].items =
                                              @ \o st.heap[curr_seg.words].items]
                                    ELSE st.heap
                          IN  [heap |-> h1, stitched |-> st.stitched, current |-> merged,
                               changes |-> Append(st.changes,
                                   StitchChange(merged, prev_seg, curr_seg,
                                                pause_duration))]
                     ELSE [heap |-> Append(st.heap, st.current),
                           stitched |-> Append(st.stitched, Len(st.heap) + 1),
                           current |-> curr_seg,
                           changes |-> st.changes]
        end == loop[Len(items)]
        h2 == Append(end.heap, end.current)
        h3 == Append(h2, [kind |-> "list", items |-> Append(end.stitched, Len(h2))])
    IN  [heap |-> h3, stitched |-> Len(h3), changes |-> end.changes, raised |-> FALSE]

\* _stitch_sentences without "if not segments: return segments, []": segments[0] of an
\* empty list raises IndexError
StitchSentencesUnguarded(h, segments) ==
    IF h[segments].items = <<>>
    THEN [heap |-> h, stitched |-> 0, changes |-> <<>>, raised |-> TRUE]
    ELSE StitchLoop(h, segments)

\* segments is the address of the list; returns [heap, stitched -> list, changes, raised]
StitchSentences(h, segments) ==
    IF h[segments].items = <<>>
    THEN [heap |-> h, stitched |-> segments, changes |-> <<>>, raised |-> FALSE]
    ELSE StitchLoop(h, segments)

\* ------------------------------------------------------------------------
\* Transcriber.normalize_transcript
\* ------------------------------------------------------------------------

\* the return value with the top-level text left as the copy has it
ReturnWithoutRebuild(st, result_transcription, stitched_segments) ==
    [heap |-> st.heap, result |-> result_transcription, changes |-> st.changes,
     raised |-> FALSE]

\* Rebuild full text, and the return value: [heap, result, changes, raised]
RebuildText(st, result_transcription, stitched_segments) ==
    [heap |-> [st.heap EXCEPT ![result_transcription].text =
                  JoinSpace([i \in 1..Len(stitched_segments) |->
                                 st.heap[stitched_segments[i]].text])],
     result |-> result_transcription,
     changes |-> st.changes,
     raised |-> FALSE]

\* Step 4: normalize numbers and dates in the stitched segments (optional)
NumbersStep(st, result_transcription, stitched_segments, normalize_numbers) ==
    RebuildText(IF normalize_numbers
                THEN TextStage(st.heap, stitched_segments, st.changes,
                               [i \in 1..Len(stitched_segments) |->
                                   NormalizeNumbersDates(st.heap[stitched_segments[i]].text)],
                               "Number/date normalization")
                ELSE st,
                result_transcription, stitched_segments)

\* the stitch changes put in front of the changes logged so far
StoreStitchedFirst(changes, stitched, result_transcription, normalize_numbers) ==
    NumbersStep([heap |-> [stitched.heap EXCEPT
                              ![result_transcription].segments = stitched.stitched],
                 changes |-> stitched.changes \o changes],
                result_transcription, stitched.heap[stitched.stitched].items,
                normalize_numbers)

\* changes.extend(stitch_changes); result_transcription["segments"] = stitched_segments;
\* an exception of _stitch_sentences leaves normalize_transcript, which has no handler
StoreStitched(changes, stitched, result_transcription, normalize_numbers) ==
    IF stitched.raised
    THEN [heap |-> stitched.heap, result |-> 0, changes |-> <<>>, raised |-> TRUE]
    ELSE NumbersStep([heap |-> [stitched.heap EXCEPT
                                   ![result_transcription].segments = stitched.stitched],
                      changes |-> changes \o stitched.changes],
                     result_transcription, stitched.heap[stitched.stitched].items,
                     normalize_numbers)

\* Step 3: stitch sentences across short pauses
StitchStep(st, segments, result_transcription, normalize_numbers) ==
    StoreStitched(st.changes, StitchSentences(st.heap, segments),
                  result_transcription, normalize_numbers)

\* Step 2: filter fillers (optional)
FillersStep(st, segments, result_transcription, remove_fillers, normalize_numbers) ==
    StitchStep(IF remove_fillers
               THEN TextStage(st.heap, st.heap[segments].items, st.changes,
                              [i \in 1..Len(st.heap[segments].items) |->
                                  FilterFillers(st.heap[st.heap[segments].items[i]].text)],
                              "Filler word removal")
               ELSE st,
               segments, result_transcription, normalize_numbers)

\* Step 1: reduce stutters; segments is the list result_transcription["segments"]
StuttersStep(h, segments, result_transcription, remove_fillers, normalize_numbers) ==
    FillersStep(TextStage(h, h[segments].items, <<>>,
                          [i \in 1..Len(h[segments].items) |->
                              ReduceStutters(h[h[segments].items[i]].text)],
                          "Stutter reduction"),
                segments, result_transcription, remove_fillers, normalize_numbers)

\* the steps on the copy
NormalizeCopy(copy, remove_fillers, normalize_numbers) ==
    StuttersStep(copy.heap, copy.heap[copy.addr].segments, copy.addr,
                 remove_fillers, normalize_numbers)

\* returns [heap, result -> the result transcription dict, changes, raised]
NormalizeTranscript(h, transcription, remove_fillers, normalize_numbers) ==
    NormalizeCopy(DeepCopy(h, transcription), remove_fillers, normalize_numbers)

\* ------------------------------------------------------------------------
\* Specification for normalize_transcript: one call on a transcription from transcribe()
\* ------------------------------------------------------------------------

\* the largest number of segments in the generated transcriptions
MaxSegments == 2

\* the pause before a generated segment: its start minus the previous end, in ms
PauseChoices == {0 - 2500, 0 - 500, 300, 500, 501, 1000}

Segment(id, start, end, text, has_words, words) ==
    [id |-> id, start |-> start, end |-> end, text |-> text,
     has_words |-> has_words, words |-> words]

\* a transcription dict as transcribe() builds it: the text and the segment list
Transcription(segments) ==
    [text |-> JoinSpace([i \in 1..Len(segments) |-> segments[i].text]),
     segments |-> segments]

\* n segments of one second each, segment i + 1 starting pauses[i + 1] after the end of
\* segment i; segment i has a words list iff with_words[i]
TimedSegments(n, pauses, with_words) ==
    LET start[i \in 1..n] == IF i = 1 THEN 10000 ELSE start[i - 1] + 1000 + pauses[i]
    IN  [i \in 1..n |->
            Segment(i - 1, start[i], start[i] + 1000, "seg" \o ToString(i - 1),
                    with_words[i], IF with_words[i] THEN <<"w" \o ToString(i - 1)>> ELSE <<>>)]

TimedTranscriptions ==
    { Transcription(TimedSegments(n, pauses, with_words)) :
        n \in 1..MaxSegments,
        pauses \in [1..MaxSegments -> PauseChoices],
        with_words \in [1..MaxSegments -> BOOLEAN] }

\* test_normalize_transcript_default
ScenarioC ==
    Transcription(<<Segment(0, 0, 5000,
        "I I I think we should meet march three at five pm", TRUE, <<>>)>>)

\* test_stitch_short_pause (start 2.3) and test_no_stitch_long_pause (start 3.0)
ScenarioD(start) ==
    Transcription(<<Segment(0, 0, 2000, "Hello everyone", TRUE, <<>>),
                    Segment(1, start, start + 2000, "welcome to the meeting", TRUE, <<>>)>>)

\* one segment of five seconds with the given text
OneSegment(text) == Transcription(<<Segment(0, 0, 5000, text, FALSE, <<>>)>>)

\* two segments 300 ms apart
TwoSegments(first, second) ==
    Transcription(<<Segment(0, 61000, 62000, first, TRUE, <<"a", "b">>),
                    Segment(1, 62300, 63000, second, TRUE, <<"c">>)>>)

\* two segments a second apart
FarApart(first, second) ==
    Transcription(<<Segment(0, 0, 2000, first, TRUE, <<>>),
                    Segment(1, 3000, 5000, second, TRUE, <<>>)>>)

SegmentTexts ==
    {"", "ok", "um I I think", "five pm", "may one", " a  b ", "you know ok",
     "so so uh like", "The the plan", "may may five"}

NormalizeTranscriptions ==
    TimedTranscriptions
        \cup {ScenarioC, ScenarioD(2300), ScenarioD(3000), Transcription(<<>>)}
        \cup { OneSegment(t) : t \in SegmentTexts }
        \cup {TwoSegments("we we meet march", "three at five pm"),
              TwoSegments(" um go ", "go  on"),
              TwoSegments("um we we meet may", "one one at five pm"),
              FarApart("so so far", "at five pm")}

InitNormalize ==
    /\ pc = "start"
    /\ \E t \in NormalizeTranscriptions, remove_fillers \in BOOLEAN, normalize_numbers \in BOOLEAN :
           LET stored == StoreTranscription(<<>>, t)
           IN  /\ heap = stored.heap
               /\ norm = [transcription |-> stored.addr,
                          remove_fillers |-> remove_fillers,
                          normalize_numbers |-> normalize_numbers,
                          before |-> t,
                          result |-> 0,
                          changes |-> <<>>,
                          raised |-> FALSE]
    /\ cls = NoCall
    /\ stut = NoCall
    /\ rep = NoCall
    /\ nums = NoCall
    /\ stitch = NoCall
    /\ pipe = NoCall
    /\ api = NoCall
    /\ menu = NoCall

\* the caller's side of the call: the result and the changes are bound, or the exception
\* propagates
NormalizeOutcome(r) ==
    /\ heap' = r.heap
    /\ norm' = [norm EXCEPT !.result = r.result, !.changes = r.changes,
                            !.raised = r.raised]
    /\ pc' = IF r.raised THEN "normalize_failed" ELSE "normalized"

\* result = transcriber.normalize_transcript(transcription, remove_fillers, normalize_numbers)
Normalize ==
    /\ pc = "start"
    /\ NormalizeOutcome(NormalizeTranscript(heap, norm.transcription,
                                            norm.remove_fillers, norm.normalize_numbers))
    /\ UNCHANGED <<cls, stut, rep, nums, stitch, pipe, api, menu>>

NextNormalize == Normalize

SpecNormalize == InitNormalize /\ [][NextNormalize]_vars

\* the call has returned
NormalizeReturned == pc = "normalized"

\* the caller's transcription and the returned one, every reference followed
CallerTranscription == TranscriptionValue(heap, norm.transcription)
ResultTranscription == TranscriptionValue(heap, norm.result)

\* C5: normalize_transcript never mutates caller-owned data: after the call the caller's
\* transcription (its text, its segment list, and each segment's id, start, end, text
\* and words list) is what it was before the call, for every input and every
\* combination of the two flags, stitching with words lists included.
C5_CallerDataUnchanged == NormalizeReturned => CallerTranscription = norm.before

\* two segments with words lists were stitched, the result's words list was extended,
\* and the caller's first segment still has its one word
C5_Witness ==
    /\ NormalizeReturned
    /\ Len(norm.before.segments) = 2
    /\ Len(ResultTranscription.segments) = 1
    /\ ResultTranscription.segments[1].words = <<"w0", "w1">>
    /\ CallerTranscription.segments[1].words = <<"w0">>

\* segment i opens a new output segment: it is the first, or the pause before it is
\* longer than 0.5 s
OpensSegment(segments, i) ==
    i = 1 \/ segments[i].start - segments[i - 1].end > 500

\* the indices of the segments that open an output segment, in order
Openers(segments) ==
    SelectSeq([i \in 1..Len(segments) |-> i], LAMBDA i : OpensSegment(segments, i))

\* the last index of the run that the k-th opener opens
RunEnd(segments, k) ==
    IF k < Len(Openers(segments)) THEN Openers(segments)[k + 1] - 1 ELSE Len(segments)

\* C6: stitching is threshold-exact: walking the segments in order, a segment is merged
\* into the open segment iff its start minus the previous segment's end is at most
\* 0.5 s. The output has one segment per segment that is first or follows a pause longer
\* than 0.5 s, with that segment's id and start and the end of the last segment merged
\* into it, and one stitch change per merged segment.
C6_StitchingThresholdExact ==
    NormalizeReturned =>
        LET input == norm.before.segments
            output == ResultTranscription.segments
            opens == Openers(input)
        IN  /\ Len(output) = Len(opens)
            /\ \A k \in 1..Len(opens) :
                   /\ output[k].id = input[opens[k]].id
                   /\ output[k].start = input[opens[k]].start
                   /\ output[k].end = input[RunEnd(input, k)].end
            /\ Cardinality({ c \in 1..Len(norm.changes) :
                                 SubSeq(norm.changes[c].reason, 1, 8) = "Stitched" })
                   = Len(input) - Len(opens)

\* a pause of exactly 0.500 s: the two segments became one
C6_Witness ==
    /\ NormalizeReturned
    /\ Len(norm.before.segments) = 2
    /\ norm.before.segments[2].start - norm.before.segments[1].end = 500
    /\ Len(ResultTranscription.segments) = 1
    /\ ResultTranscription.segments[1].end = norm.before.segments[2].end

\* start < end in every segment of the list
AllStartBeforeEnd(segments) ==
    \A i \in 1..Len(segments) : segments[i].start < segments[i].end

\* the segments are in the order of their start times
OrderedByStart(segments) ==
    \A i \in 2..Len(segments) : segments[i - 1].start <= segments[i].start

\* C8 as stated: every output segment of normalize_transcript has start < end whenever
\* every input segment does, merged segments included, for any ordering or overlap
\* of the input timestamps.
C8_OutputStartBeforeEnd ==
    (NormalizeReturned /\ AllStartBeforeEnd(norm.before.segments))
        => AllStartBeforeEnd(ResultTranscription.segments)

\* For input segments listed in the order of their start times (they may overlap),
\* every output segment has start < end whenever every input segment does.
OutputStartBeforeEndWhenOrdered ==
    (NormalizeReturned /\ AllStartBeforeEnd(norm.before.segments)
                       /\ OrderedByStart(norm.before.segments))
        => AllStartBeforeEnd(ResultTranscription.segments)

\* two overlapping segments in start order were merged into one
OrderedOverlapMerged ==
    /\ NormalizeReturned
    /\ Len(norm.before.segments) = 2
    /\ AllStartBeforeEnd(norm.before.segments)
    /\ OrderedByStart(norm.before.segments)
    /\ norm.before.segments[2].start < norm.before.segments[1].end
    /\ Len(ResultTranscription.segments) = 1
    /\ ResultTranscription.segments[1].start = norm.before.segments[1].start
    /\ ResultTranscription.segments[1].end = norm.before.segments[2].end

\* the call was normalize_transcript(Scenario C) with the default flags
ScenarioCDefaults ==
    /\ NormalizeReturned
    /\ norm.before = ScenarioC
    /\ ~norm.remove_fillers
    /\ norm.normalize_numbers

\* the one output segment contains "I think", "March 3" and "5 pm"
ScenarioCText ==
    /\ Len(ResultTranscription.segments) = 1
    /\ Contains(ResultTranscription.segments[1].text, "I think")
    /\ Contains(ResultTranscription.segments[1].text, "March 3")
    /\ Contains(ResultTranscription.segments[1].text, "5 pm")

\* C9 as stated: Scenario C with default flags yields segment text containing
\* "I think", "March 3" and "5 pm", and at least 3 changes.
C9_ScenarioCThreeChanges ==
    ScenarioCDefaults => (ScenarioCText /\ Len(norm.changes) >= 3)

\* C9, amended: Scenario C with default flags yields segment text containing "I think",
\* "March 3" and "5 pm", and exactly 2 changes: one for the stutter reduction and one for
\* the number/date normalization of the segment.
C9_ScenarioCTwoChanges ==
    ScenarioCDefaults =>
        /\ ScenarioCText
        /\ Len(norm.changes) = 2
        /\ norm.changes[1].reason = "Stutter reduction"
        /\ norm.changes[2].reason = "Number/date normalization"

\* Scenario C was normalized to the expected text
C9_Witness ==
    /\ ScenarioCDefaults
    /\ ResultTranscription.text = "I think we should meet March 3 at 5 pm"

\* ------------------------------------------------------------------------
\* Transcriber.repair_transcript
\* ------------------------------------------------------------------------

\* str.split(): the maximal runs of non-whitespace characters
RECURSIVE SplitWords(_)
SplitWords(s) ==
    LET keep == { i \in 1..Len(s) : ~IsSpace(CharAt(s, i)) }
    IN  IF keep = {} THEN <<>>
        ELSE LET i == CHOOSE x \in keep : \A y \in keep : x <= y
                 ends == { j \in i..Len(s) : j = Len(s) \/ IsSpace(CharAt(s, j + 1)) }
                 j == CHOOSE x \in ends : \A y \in ends : x <= y
             IN  <<SubSeq(s, i, j)>> \o SplitWords(SubSeq(s, j + 1, Len(s)))

\* change_info.get(key, default): change_info.keys is the set of keys of the dict
Get(change_info, key, default) ==
    IF key \in change_info.keys THEN change_info[key] ELSE default

\* isinstance(change_info, dict) and change_info.get("before") != change_info.get("after")
PassesNoOpFilter(change_info) ==
    change_info.is_dict /\ Get(change_info, "before", None) # Get(change_info, "after", None)

\* for change_info in repair_changes: append the entries that pass the filter
RECURSIVE StructuredChanges(_)
StructuredChanges(repair_changes) ==
    IF repair_changes = <<>> THEN <<>>
    ELSE LET change_info == Head(repair_changes)
         IN  (IF PassesNoOpFilter(change_info)
              THEN <<TranscriptChange(Get(change_info, "segment_id", 0),
                                      Get(change_info, "timestamp", "00:00-00:00"),
                                      Get(change_info, "before", ""),
                                      Get(change_info, "after", ""),
                                      Get(change_info, "reason", "ASR error correction"),
                                      "repair")>>
              ELSE <<>>) \o StructuredChanges(Tail(repair_changes))

\* the segment replaced by a new dict with the text, which has no words list
WithSegmentRebuilt(h, a, text) ==
    [h EXCEPT ![a] = [kind |-> "segment", id |-> h[a].id, start |-> h[a].start,
                      end |-> h[a].end, text |-> text, words |-> 0]]

\* seg["text"] = repaired_seg_text, for the segment dict at address a
WithSegmentText(h, a, text) == [h EXCEPT ![a].text = text]

\* the allocation without its lower bound of one word
WordsToTakeExact(original_seg_word_count) == original_seg_word_count

\* words_to_take = max(1, original_seg_word_count)
WordsToTake(original_seg_word_count) == Max(1, original_seg_word_count)

\* the last segment given a single word like a segment of one word
RemainingWordsCapped(repaired_words, word_index) ==
    SubSeq(repaired_words, word_index + 1, Min(word_index + 1, Len(repaired_words)))

\* repaired_words[word_index:]
RemainingWords(repaired_words, word_index) ==
    SubSeq(repaired_words, word_index + 1, Len(repaired_words))

\* the loop over the segments: the repaired words are dealt out to the segments
RedistributeWords(h, segs, repaired_words) ==
    LET step[i \in 0..Len(segs)] ==
            IF i = 0 THEN [heap |-> h, changes |-> <<>>, word_index |-> 0]
            ELSE LET st == step[i - 1]
                     seg == st.heap[segs[i]]
                     original_seg_text == seg.text
                     original_seg_word_count == Len(SplitWords(original_seg_text))
                     words_to_take == WordsToTake(original_seg_word_count)
                     seg_repaired_words ==
                         IF i = Len(segs)
                         THEN RemainingWords(repaired_words, st.word_index)
                         ELSE SubSeq(repaired_words, st.word_index + 1,
                                     Min(st.word_index + words_to_take, Len(repaired_words)))
                     word_index == IF i = Len(segs) THEN st.word_index
                                   ELSE st.word_index + words_to_take
                     repaired_seg_text == JoinSpace(seg_repaired_words)
                 IN  IF repaired_seg_text # original_seg_text
                     THEN [heap |-> WithSegmentText(st.heap, segs[i], repaired_seg_text),
                           changes |-> Append(st.changes,
                               TranscriptChange(seg.id, FormatTimestamp(seg.start, seg.end),
                                                original_seg_text, repaired_seg_text,
                                                "LLM-based ASR error correction", "repair")),
                           word_index |-> word_index]
                     ELSE [st EXCEPT !.word_index = word_index]
    IN  step[Len(segs)]

\* repaired_text of a response; response.kind is "dict" or "text"
RepairedText(response, full_text) ==
    IF response.kind = "dict"
    THEN (IF response.has_repaired_text THEN response.repaired_text ELSE full_text)
    ELSE Strip(response.text)

\* repair_changes of a response
RepairChanges(response) ==
    IF response.kind = "dict" /\ response.has_changes THEN response.changes ELSE <<>>

\* whether "for change_info in repair_changes" can iterate: a "changes" entry that is
\* not a list (None, a number) raises TypeError there
ChangesIterable(response) ==
    response.kind # "dict" \/ ~response.has_changes \/ response.changes_is_list

\* the loop over repair_changes with its TypeError swallowed: the work done so far is
\* returned
WithStructuredChangesSwallowed(dealt, result_transcription, response) ==
    [heap |-> dealt.heap, result |-> result_transcription,
     changes |-> dealt.changes \o
                 (IF ChangesIterable(response) THEN StructuredChanges(RepairChanges(response))
                  ELSE <<>>),
     raised |-> FALSE]

\* the segment changes, then the structured changes of the response; an exception in
\* the loop leaves the try block: except Exception as e: raise RuntimeError(...) from e
WithStructuredChanges(dealt, result_transcription, response) ==
    IF ChangesIterable(response)
    THEN [heap |-> dealt.heap, result |-> result_transcription,
          changes |-> dealt.changes \o StructuredChanges(RepairChanges(response)),
          raised |-> FALSE]
    ELSE [heap |-> dealt.heap, result |-> 0, changes |-> <<>>, raised |-> TRUE]

\* if repaired_text and repaired_text != full_text: ...
ApplyRepair(h, result_transcription, segs, full_text, repaired_text, response) ==
    IF repaired_text # "" /\ repaired_text # full_text
    THEN WithStructuredChanges(
             IF Len(SplitWords(repaired_text)) > 0
             THEN RedistributeWords([h EXCEPT ![result_transcription].text = repaired_text],
                                    segs, SplitWords(repaired_text))
             ELSE [heap |-> [h EXCEPT ![result_transcription].text = repaired_text],
                   changes |-> <<>>],
             result_transcription, response)
    ELSE [heap |-> h, result |-> result_transcription, changes |-> <<>>, raised |-> FALSE]

\* full_text = " ".join(seg["text"] for seg in segments), and the rest of the call
RepairSegments(h, result_transcription, segs, response) ==
    ApplyRepair(h, result_transcription, segs,
                JoinSpace([i \in 1..Len(segs) |-> h[segs[i]].text]),
                RepairedText(response, JoinSpace([i \in 1..Len(segs) |-> h[segs[i]].text])),
                response)

\* the call on the copy
RepairCopy(copy, response) ==
    RepairSegments(copy.heap, copy.addr, copy.heap[copy.heap[copy.addr].segments].items,
                   response)

\* the exception classes that "except Exception" catches
CaughtExceptions == {"Exception", "TimeoutError", "ConnectionError"}

\* the call: [heap, result, changes, raised]; when the engine raises, the except clause
\* is reached with nothing done but the copy
RepairTranscript(h, transcription, response) ==
    IF response.kind = "raise"
    THEN [heap |-> DeepCopy(h, transcription).heap, result |-> 0, changes |-> <<>>,
          raised |-> response.exception \in CaughtExceptions]
    ELSE RepairCopy(DeepCopy(h, transcription), response)

\* ------------------------------------------------------------------------
\* Specification for repair_transcript: one call with one response of the engine
\* ------------------------------------------------------------------------

\* the largest number of entries in the "changes" list of a response
MaxChangeInfos == 1

\* three segments, the second with an empty text and without a words list
ThreeSegments(first, third) ==
    Transcription(<<Segment(0, 61000, 62000, first, TRUE, <<"a", "b">>),
                    Segment(1, 62300, 62300, "", FALSE, <<>>),
                    Segment(2, 62400, 63000, third, TRUE, <<"c">>)>>)

RepairTranscriptions ==
    {Transcription(<<>>),
     OneSegment("teh plan"),
     TwoSegments("teh plan", "is set"),
     TwoSegments("", "teh plan"),
     ThreeSegments("teh plan", "is set")}

RepairedTexts ==
    {"", " ", "the", "teh plan", " teh plan", "the plan", " teh plan is set ",
     "the plan is set now"}

\* an entry of the "changes" list that is a dict: keys says which keys it has
ChangeInfo(has_before, before, has_after, after, has_rest) ==
    [is_dict |-> TRUE,
     keys |-> (IF has_before THEN {"before"} ELSE {})
                \cup (IF has_after THEN {"after"} ELSE {})
                \cup (IF has_rest THEN {"segment_id", "timestamp", "reason"} ELSE {}),
     segment_id |-> IF has_rest THEN 1 ELSE 0,
     timestamp |-> IF has_rest THEN "01:02-01:03" ELSE "",
     before |-> IF has_before THEN before ELSE "",
     after |-> IF has_after THEN after ELSE "",
     reason |-> IF has_rest THEN "typo" ELSE ""]

\* an entry that is not a dict
NotADict ==
    [is_dict |-> FALSE, keys |-> {}, segment_id |-> 0, timestamp |-> "",
     before |-> "", after |-> "", reason |-> ""]

ChangeInfos ==
    { ChangeInfo(has_before, before, has_after, after, has_rest) :
        has_before \in BOOLEAN, before \in {"", "teh"},
        has_after \in BOOLEAN, after \in {"", "teh", "the"},
        has_rest \in BOOLEAN }
    \cup {NotADict}

RECURSIVE ChangeInfoLists(_)
ChangeInfoLists(n) ==
    IF n = 0 THEN {<<>>}
    ELSE LET shorter == ChangeInfoLists(n - 1)
         IN  shorter \cup { Append(l, c) : l \in shorter, c \in ChangeInfos }

\* what the engine's repair_transcript does: raise (an error of its own or a timeout),
\* return a string, or return a dict; the "changes" of a dict is a list or is not one
Responses ==
    { [kind |-> "raise", exception |-> e] : e \in CaughtExceptions }
    \cup { [kind |-> "text", text |-> t] : t \in RepairedTexts }
    \cup { [kind |-> "dict", has_repaired_text |-> TRUE, repaired_text |-> t,
            has_changes |-> TRUE, changes_is_list |-> TRUE, changes |-> l] :
            t \in RepairedTexts, l \in ChangeInfoLists(MaxChangeInfos) }
    \cup { [kind |-> "dict", has_repaired_text |-> TRUE, repaired_text |-> t,
            has_changes |-> TRUE, changes_is_list |-> FALSE, changes |-> <<>>] :
            t \in RepairedTexts }
    \cup { [kind |-> "dict", has_repaired_text |-> hr, repaired_text |-> "",
            has_changes |-> hc, changes_is_list |-> TRUE, changes |-> <<>>] :
            hr \in BOOLEAN, hc \in BOOLEAN }

InitRepair ==
    /\ pc = "start"
    /\ \E t \in RepairTranscriptions, response \in Responses :
           LET stored == StoreTranscription(<<>>, t)
           IN  /\ heap = stored.heap
               /\ rep = [transcription |-> stored.addr,
                         before |-> t,
                         response |-> response,
                         result |-> 0,
                         changes |-> <<>>,
                         error |-> None]
    /\ cls = NoCall
    /\ stut = NoCall
    /\ norm = NoCall
    /\ nums = NoCall
    /\ stitch = NoCall
    /\ pipe = NoCall
    /\ api = NoCall
    /\ menu = NoCall

\* result = await transcriber.repair_transcript(transcription, llm_engine)
Repair ==
    /\ pc = "start"
    /\ LET r == RepairTranscript(heap, rep.transcription, rep.response)
       IN  /\ ~r.raised
           /\ heap' = r.heap
           /\ rep' = [rep EXCEPT !.result = r.result, !.changes = r.changes]
    /\ pc' = "repaired"
    /\ UNCHANGED <<cls, stut, norm, nums, stitch, pipe, api, menu>>

\* the engine or a later statement of the try block raises: the call raises
\* RuntimeError("Failed to repair transcript: ...") and returns nothing; what it did to
\* its copy stays on the heap, unreferenced
RepairRaises ==
    /\ pc = "start"
    /\ LET r == RepairTranscript(heap, rep.transcription, rep.response)
       IN  /\ r.raised
           /\ heap' = r.heap
           /\ rep' = [rep EXCEPT !.error = "RuntimeError"]
    /\ pc' = "repair_failed"
    /\ UNCHANGED <<cls, stut, norm, nums, stitch, pipe, api, menu>>

NextRepair == Repair \/ RepairRaises

SpecRepair == InitRepair /\ [][NextRepair]_vars

\* the changes returned by the call that has returned
LoggedChanges ==
    IF pc = "normalized" THEN norm.changes
    ELSE IF pc = "repaired" THEN rep.changes
    ELSE <<>>

\* C7: every TranscriptChange logged by normalize_transcript or by repair_transcript,
\* the structured entries of the engine's response included, has before # after.
C7_NoNoOpChanges ==
    \A i \in 1..Len(LoggedChanges) : LoggedChanges[i].before # LoggedChanges[i].after

\* ------------------------------------------------------------------------
\* Specification for _normalize_numbers_dates: one call on a text of tokens
\* ------------------------------------------------------------------------

\* the largest number of vocabulary tokens in a generated text
MaxNumberTokens == 2

NumberVocabulary == <<"one", "five", "FIVE", "may", "MAY", "pm", "of">>

\* the texts of at most n vocabulary tokens joined by single spaces
RECURSIVE TokenTexts(_)
TokenTexts(n) ==
    IF n = 0 THEN {""}
    ELSE LET shorter == TokenTexts(n - 1)
         IN  shorter \cup
             { IF t = "" THEN NumberVocabulary[w] ELSE t \o " " \o NumberVocabulary[w] :
                 t \in shorter, w \in 1..Len(NumberVocabulary) }

NumberScenarios ==
    {"one of the options", "one of five pm", "five  PM", "five, pm", "may one pm",
     "march three at five pm", "twenty twenty four", "I have one or two ideas"}

NumberTexts == TokenTexts(MaxNumberTokens) \cup NumberScenarios

InitNumbers ==
    /\ pc = "start"
    /\ nums \in [text : NumberTexts, result : {None}]
    /\ cls = NoCall
    /\ stut = NoCall
    /\ heap = <<>>
    /\ norm = NoCall
    /\ rep = NoCall
    /\ stitch = NoCall
    /\ pipe = NoCall
    /\ api = NoCall
    /\ menu = NoCall

\* result = self._normalize_numbers_dates(text)
NormalizeNumbers ==
    /\ pc = "start"
    /\ nums' = [nums EXCEPT !.result = NormalizeNumbersDates(nums.text)]
    /\ pc' = "numbers_normalized"
    /\ UNCHANGED <<cls, stut, heap, norm, rep, stitch, pipe, api, menu>>

NextNumbers == NormalizeNumbers

SpecNumbers == InitNumbers /\ [][NextNumbers]_vars

\* the token is a number word, a month name, a unit suffix (in any casing)
IsNumberWord(w) == \E i \in 1..Len(number_words) : number_words[i][1] = Lower(w)
IsMonth(w) == \E i \in 1..Len(months) : months[i][1] = Lower(w)
IsUnit(w) == \E i \in 1..Len(unit_suffixes) : unit_suffixes[i] = Lower(w)

\* the digits of a number word, the title-cased name of a month
DigitsOf(w) == number_words[CHOOSE i \in 1..Len(number_words) : number_words[i][1] = Lower(w)][2]
TitleOf(w) == months[CHOOSE i \in 1..Len(months) : months[i][1] = Lower(w)][2]

\* token i is a number word followed by a unit suffix or preceded by a month name
NumberInContext(tokens, i) ==
    /\ IsNumberWord(tokens[i])
    /\ \/ i < Len(tokens) /\ IsUnit(tokens[i + 1])
       \/ i > 1 /\ IsMonth(tokens[i - 1])

\* token i is a month name followed by a number word
MonthBeforeNumber(tokens, i) ==
    IsMonth(tokens[i]) /\ i < Len(tokens) /\ IsNumberWord(tokens[i + 1])

RECURSIVE Offset(_, _)
Offset(segments, i) ==
    IF i = 1 THEN 0 ELSE Offset(segments, i - 1) + Len(segments[i - 1].text) + 1

\* C12: round trip: for every input, zero segments included, the top-level text of the
\* transcription returned by normalize_transcript is the final segment texts joined
\* with single spaces, in segment order: each segment text stands at its place in the
\* text, a single space stands between two of them, and nothing else is in the text.
C12_TextIsJoinedSegmentTexts ==
    NormalizeReturned =>
        LET text == ResultTranscription.text
            segments == ResultTranscription.segments
            n == Len(segments)
        IN  /\ n = 0 => text = ""
            /\ n > 0 => Len(text) = Offset(segments, n) + Len(segments[n].text)
            /\ \A i \in 1..n :
                   /\ SubSeq(text, Offset(segments, i) + 1,
                             Offset(segments, i) + Len(segments[i].text)) = segments[i].text
                   /\ i > 1 => SubSeq(text, Offset(segments, i), Offset(segments, i)) = " "

\* two output segments whose texts both changed, and the text made of the new ones
C12_Witness ==
    /\ NormalizeReturned
    /\ norm.before.text = "so so far at five pm"
    /\ Len(ResultTranscription.segments) = 2
    /\ ResultTranscription.segments[1].text = "so far"
    /\ ResultTranscription.segments[2].text = "at 5 pm"
    /\ ResultTranscription.text = "so far at 5 pm"

\* the stage that logged the change, by its reason
StageOf(change) ==
    CASE change.reason = "Stutter reduction" -> 1
      [] change.reason = "Filler word removal" -> 2
      [] SubSeq(change.reason, 1, 16) = "Stitched across " -> 3
      [] change.reason = "Number/date normalization" -> 4
      [] OTHER -> 0

\* C13: the change list returned by normalize_transcript is in stage order: stutter
\* reduction entries, then filler removal entries, then stitching entries, then
\* number/date entries; within a stage the entries follow segment order (one entry per
\* segment in the text stages), so entries are never interleaved by segment.
C13_ChangesInStageOrder ==
    NormalizeReturned =>
        /\ \A i \in 1..Len(norm.changes) : StageOf(norm.changes[i]) \in 1..4
        /\ \A i \in 2..Len(norm.changes) :
               LET prev == norm.changes[i - 1]
                   this == norm.changes[i]
               IN  \/ StageOf(prev) < StageOf(this)
                   \/ /\ StageOf(prev) = StageOf(this)
                      /\ IF StageOf(this) = 3
                         THEN prev.segment_id <= this.segment_id
                         ELSE prev.segment_id < this.segment_id

\* all four stages logged, the first of them for both segments
C13_Witness ==
    /\ NormalizeReturned
    /\ Len(norm.changes) = 5
    /\ [i \in 1..5 |-> StageOf(norm.changes[i])] = <<1, 1, 2, 3, 4>>
    /\ [i \in 1..5 |-> norm.changes[i].segment_id] = <<0, 1, 0, 0, 0>>

\* ------------------------------------------------------------------------
\* Specification for _stitch_sentences: calls on a list of segments
\* ------------------------------------------------------------------------

\* the largest number of segments in a generated list
MaxStitchSegments == 3

StitchPauses == {0 - 2500, 300, 501}

StitchTexts == {"", "a", " b "}

\* n segments of one second each with the given pauses and texts; a segment with a text
\* has a words list of one word
StitchSegments(n, pauses, texts) ==
    LET start[i \in 1..n] == IF i = 1 THEN 10000 ELSE start[i - 1] + 1000 + pauses[i]
    IN  [i \in 1..n |->
            Segment(i - 1, start[i], start[i] + 1000, texts[i],
                    texts[i] # "", IF texts[i] # "" THEN <<"w" \o ToString(i - 1)>> ELSE <<>>)]

StitchInputs ==
    { StitchSegments(n, pauses, texts) :
        n \in 0..MaxStitchSegments,
        pauses \in [1..MaxStitchSegments -> StitchPauses],
        texts \in [1..MaxStitchSegments -> StitchTexts] }

\* the list object of the segment values vs, after the objects of h: [heap, addr]
StoreSegmentList(h, vs) ==
    [heap |-> Append(StoreSegments(h, vs).heap,
                     [kind |-> "list", items |-> StoreSegments(h, vs).addrs]),
     addr |-> Len(StoreSegments(h, vs).heap) + 1]

\* the values of the segments of the list at address a
SegmentListValue(h, a) == [i \in 1..Len(h[a].items) |-> SegmentValue(h, h[a].items[i])]

InitStitch ==
    /\ pc = "start"
    /\ \E segments \in StitchInputs :
           /\ heap = StoreSegmentList(<<>>, segments).heap
           /\ stitch = [segments |-> StoreSegmentList(<<>>, segments).addr,
                        before |-> segments,
                        stitched |-> 0,
                        changes |-> <<>>,
                        restitched |-> 0,
                        rechanges |-> <<>>]
    /\ cls = NoCall
    /\ stut = NoCall
    /\ norm = NoCall
    /\ rep = NoCall
    /\ nums = NoCall
    /\ pipe = NoCall
    /\ api = NoCall
    /\ menu = NoCall

\* stitched, changes = self._stitch_sentences(segments)
Stitch ==
    /\ pc = "start"
    /\ LET r == StitchSentences(heap, stitch.segments)
       IN  /\ heap' = r.heap
           /\ stitch' = [stitch EXCEPT !.stitched = r.stitched, !.changes = r.changes]
    /\ pc' = "stitched"
    /\ UNCHANGED <<cls, stut, norm, rep, nums, pipe, api, menu>>

\* the assignment of a second call's return value
RestitchOutcome(r) ==
    /\ heap' = r.heap
    /\ stitch' = [stitch EXCEPT !.restitched = r.stitched, !.rechanges = r.changes]

\* restitched, rechanges = self._stitch_sentences(stitched)
StitchAgain ==
    /\ pc = "stitched"
    /\ RestitchOutcome(StitchSentences(heap, stitch.stitched))
    /\ pc' = "restitched"
    /\ UNCHANGED <<cls, stut, norm, rep, nums, pipe, api, menu>>

NextStitch == Stitch \/ StitchAgain

SpecStitch == InitStitch /\ [][NextStitch]_vars

\* ------------------------------------------------------------------------
\* Claims about _stitch_sentences
\* ------------------------------------------------------------------------

StitchReturned == pc = "stitched"

StitchedSegments == SegmentListValue(heap, stitch.stitched)

\* the stripped texts of segments first..last joined by single spaces
JoinedStrippedTexts(segments, first, last) ==
    JoinSpace([i \in 1..(last - first + 1) |-> Strip(segments[first + i - 1].text)])

\* the text the merges leave: each merge strips what is there and appends a space and
\* the stripped text of the merged segment
RECURSIVE FoldedText(_, _, _)
FoldedText(segments, first, last) ==
    IF last = first THEN segments[first].text
    ELSE Strip(FoldedText(segments, first, last - 1)) \o " " \o Strip(segments[last].text)

RaisesInReconciliation(response, full_text) ==
    /\ response.kind = "dict"
    /\ ~ChangesIterable(response)
    /\ RepairedText(response, full_text) # ""
    /\ RepairedText(response, full_text) # full_text

\* the segment texts of the caller's transcription, as they were, joined by single spaces
OriginalFullText ==
    JoinSpace([i \in 1..Len(rep.before.segments) |-> rep.before.segments[i].text])

\* C15: when the engine's repair call raises or times out, or a later step of the
\* reconciliation raises, repair_transcript raises RuntimeError and returns no result,
\* and the caller's transcription is as it was.
C15_RepairFailsWithRuntimeErrorOnly ==
    /\ pc \in {"repaired", "repair_failed"} =>
           (pc = "repair_failed"
                <=> \/ rep.response.kind = "raise"
                    \/ RaisesInReconciliation(rep.response, OriginalFullText))
    /\ pc = "repair_failed" =>
           /\ rep.error = "RuntimeError"
           /\ rep.result = 0
           /\ rep.changes = <<>>
           /\ TranscriptionValue(heap, rep.transcription) = rep.before

\* a response whose "changes" is not a list fails the call after the copy's segment was
\* rewritten; the caller's segment still has its text
C15_Witness ==
    /\ pc = "repair_failed"
    /\ rep.response.kind = "dict"
    /\ rep.error = "RuntimeError"
    /\ Len(rep.before.segments) = 1
    /\ rep.before.segments[1].text = "teh plan"
    /\ TranscriptionValue(heap, rep.transcription).segments[1].text = "teh plan"
    /\ \E a \in 1..Len(heap) : heap[a].kind = "segment" /\ heap[a].text = "the plan"

\* ------------------------------------------------------------------------
\* Specification for the pipeline: normalize_and_repair, then write_transcripts
\* ------------------------------------------------------------------------

PipelineTranscriptions ==
    {OneSegment("teh teh plan"),
     TwoSegments("um teh plan", "is is set"),
     FarApart("teh plan", "at five pm")}

\* what the engine of the context does when it is asked to repair
PipelineResponses ==
    {[kind |-> "raise", exception |-> "Exception"],
     [kind |-> "raise", exception |-> "TimeoutError"],
     [kind |-> "text", text |-> "the plan is set"],
     [kind |-> "dict", has_repaired_text |-> TRUE, repaired_text |-> "the plan",
      has_changes |-> TRUE, changes_is_list |-> TRUE,
      changes |-> <<ChangeInfo(TRUE, "teh", TRUE, "the", TRUE)>>],
     [kind |-> "dict", has_repaired_text |-> TRUE, repaired_text |-> "the plan",
      has_changes |-> TRUE, changes_is_list |-> FALSE, changes |-> <<>>]}

\* the context after load_or_transcribe: a transcription and its segment list, or no
\* transcription and an empty segment list; an engine or none
InitPipeline ==
    /\ pc = "start"
    /\ \E normalize \in BOOLEAN, repair \in BOOLEAN, remove_fillers \in BOOLEAN,
          has_engine \in BOOLEAN, response \in PipelineResponses,
          loaded \in BOOLEAN, t \in PipelineTranscriptions :
           LET stored == IF ~loaded
                         THEN [heap |-> <<[kind |-> "list", items |-> <<>>]>>, addr |-> 0]
                         ELSE StoreTranscription(<<>>, t)
           IN  /\ has_engine \/ response = [kind |-> "raise", exception |-> "Exception"]
               /\ loaded \/ t = OneSegment("teh teh plan")
               /\ heap = stored.heap
               /\ pipe = [config |-> [normalize |-> normalize, repair |-> repair,
                                      remove_fillers |-> remove_fillers],
                          llm_engine_instance |-> has_engine,
                          response |-> response,
                          ctx |-> [transcription |-> stored.addr,
                                   segments |-> IF ~loaded THEN 1
                                                ELSE stored.heap[stored.addr].segments,
                                   transcript_changes |-> <<>>],
                          norm_result |-> 0,
                          repair_argument |-> 0,
                          repair_failed |-> FALSE,
                          written |-> [segments |-> <<>>, changes |-> <<>>]]
    /\ cls = NoCall
    /\ stut = NoCall
    /\ norm = NoCall
    /\ rep = NoCall
    /\ nums = NoCall
    /\ stitch = NoCall
    /\ api = NoCall
    /\ menu = NoCall

\* if not (self.config.normalize or self.config.repair): return
SkipPreprocessing ==
    /\ pc = "start"
    /\ ~(pipe.config.normalize \/ pipe.config.repair)
    /\ pc' = "preprocessed"
    /\ UNCHANGED <<cls, stut, heap, norm, rep, nums, stitch, pipe, api, menu>>

\* if self.ctx.transcription is None: ... return
SkipNoTranscription ==
    /\ pc = "start"
    /\ pipe.config.normalize \/ pipe.config.repair
    /\ pipe.ctx.transcription = 0
    /\ pc' = "preprocessed"
    /\ UNCHANGED <<cls, stut, heap, norm, rep, nums, stitch, pipe, api, menu>>

\* the context after the normalization block has run on it
NormalizedContext(ctx, r) ==
    [transcription |-> r.result,
     segments |-> r.heap[r.result].segments,
     transcript_changes |-> ctx.transcript_changes \o r.changes]

\* the normalization block's assignments from the result r of normalize_transcript
NormalizationOutcome(r, repair) ==
    /\ heap' = r.heap
    /\ pipe' = [pipe EXCEPT !.config.repair = repair,
                            !.ctx = NormalizedContext(@, r),
                            !.norm_result = r.result]

\* normalize_and_repair up to the end of the normalization block: repair is switched
\* off when there is no engine, and normalization runs if it is configured
NormalizationBlock ==
    /\ pc = "start"
    /\ pipe.config.normalize \/ pipe.config.repair
    /\ pipe.ctx.transcription # 0
    /\ LET repair == pipe.config.repair /\ pipe.llm_engine_instance
       IN  IF pipe.config.normalize
           THEN NormalizationOutcome(
                    NormalizeTranscript(heap, pipe.ctx.transcription,
                                        pipe.config.remove_fillers, TRUE),
                    repair)
           ELSE /\ heap' = heap
                /\ pipe' = [pipe EXCEPT !.config.repair = repair]
    /\ pc' = "normalization_done"
    /\ UNCHANGED <<cls, stut, norm, rep, nums, stitch, api, menu>>

\* if self.config.repair and self.ctx.llm_engine_instance: (not taken)
RepairBlockSkipped ==
    /\ pc = "normalization_done"
    /\ ~(pipe.config.repair /\ pipe.llm_engine_instance)
    /\ pc' = "preprocessed"
    /\ UNCHANGED <<cls, stut, heap, norm, rep, nums, stitch, pipe, api, menu>>

\* the repair block when repair_transcript returns
RepairBlockReturns ==
    /\ pc = "normalization_done"
    /\ pipe.config.repair /\ pipe.llm_engine_instance
    /\ LET r == RepairTranscript(heap, pipe.ctx.transcription, pipe.response)
       IN  /\ ~r.raised
           /\ heap' = r.heap
           /\ pipe' = [pipe EXCEPT !.ctx = NormalizedContext(@, r),
                                   !.repair_argument = pipe.ctx.transcription]
    /\ pc' = "preprocessed"
    /\ UNCHANGED <<cls, stut, norm, rep, nums, stitch, api, menu>>

\* the repair block when repair_transcript raises, with the handler writing to the
\* context what the call had done to its copy
RepairFailureKeepsCopy(ctx, r) ==
    [ctx EXCEPT !.transcription = Len(r.heap),
                !.segments = r.heap[Len(r.heap)].segments]

\* the repair block when repair_transcript raises: except Exception prints a warning
RepairFailure(ctx, r) == ctx

RepairBlockFails ==
    /\ pc = "normalization_done"
    /\ pipe.config.repair /\ pipe.llm_engine_instance
    /\ LET r == RepairTranscript(heap, pipe.ctx.transcription, pipe.response)
       IN  /\ r.raised
           /\ heap' = r.heap
           /\ pipe' = [pipe EXCEPT !.ctx = RepairFailure(@, r),
                                   !.repair_argument = pipe.ctx.transcription,
                                   !.repair_failed = TRUE]
    /\ pc' = "preprocessed"
    /\ UNCHANGED <<cls, stut, norm, rep, nums, stitch, api, menu>>

\* write_transcripts: the next step of run(); it formats self.ctx.segments and, if
\* there are any, self.ctx.transcript_changes
WriteTranscripts ==
    /\ pc = "preprocessed"
    /\ pipe' = [pipe EXCEPT !.written =
                    [segments |-> SegmentListValue(heap, pipe.ctx.segments),
                     changes |-> pipe.ctx.transcript_changes]]
    /\ pc' = "transcripts_written"
    /\ UNCHANGED <<cls, stut, heap, norm, rep, nums, stitch, api, menu>>

NextPipeline ==
    \/ SkipPreprocessing
    \/ SkipNoTranscription
    \/ NormalizationBlock
    \/ RepairBlockSkipped
    \/ RepairBlockReturns
    \/ RepairBlockFails
    \/ WriteTranscripts

SpecPipeline == InitPipeline /\ [][NextPipeline]_vars

\* ------------------------------------------------------------------------
\* Claims about the pipeline
\* ------------------------------------------------------------------------

\* a step that takes the repair block, whether or not it calls repair_transcript
RepairBlockStep == pc = "normalization_done" /\ pc' = "preprocessed"

\* the context and the objects it refers to are after the step what they were before it
ContextUntouched ==
    /\ pipe'.ctx = pipe.ctx
    /\ TranscriptionValue(heap', pipe.ctx.transcription)
           = TranscriptionValue(heap, pipe.ctx.transcription)
    /\ SegmentListValue(heap', pipe.ctx.segments) = SegmentListValue(heap, pipe.ctx.segments)

\* a failing repair does not abort: the step ends where write_transcripts starts
FailureIsolated == pipe'.repair_failed => (ContextUntouched /\ pc' = "preprocessed")

\* C16 as stated: repair always runs after normalization, on the normalized
\* transcription; when repair raises, the context's transcription, segments and change
\* list stay as they were after normalization and the pipeline goes on.
C16_RepairAlwaysOnNormalized ==
    [][RepairBlockStep =>
          /\ pipe'.repair_argument # 0 =>
                 /\ pipe.norm_result # 0
                 /\ pipe'.repair_argument = pipe.norm_result
          /\ FailureIsolated]_vars

\* C16 amended: repair runs after the normalization block on the context's transcription
\* as that block left it: the normalized transcription when normalization is configured,
\* the transcription as loaded when it is not; when repair raises, the context's
\* transcription, segments and change list stay as they were before the repair block and
\* the pipeline goes on.
C16_RepairOnContextTranscription ==
    [][RepairBlockStep =>
          /\ pipe'.repair_argument # 0 =>
                 /\ pipe'.repair_argument = pipe.ctx.transcription
                 /\ pipe.config.normalize =>
                        (pipe.norm_result # 0 /\ pipe'.repair_argument = pipe.norm_result)
                 /\ ~pipe.config.normalize => pipe.norm_result = 0
          /\ (pipe.config.repair /\ pipe.llm_engine_instance) => pipe'.repair_argument # 0
          /\ FailureIsolated]_vars

\* repair failed on the normalized transcription of a pipeline with normalization on, and
\* write_transcripts has written the normalized segments and the normalization changes
C16_Witness ==
    /\ pc = "transcripts_written"
    /\ pipe.repair_failed
    /\ pipe.config.normalize
    /\ pipe.norm_result # 0
    /\ pipe.repair_argument = pipe.norm_result
    /\ pipe.ctx.transcription = pipe.norm_result
    /\ Len(pipe.ctx.transcript_changes) > 0
    /\ pipe.written.changes = pipe.ctx.transcript_changes
    /\ pipe.written.segments = TranscriptionValue(heap, pipe.norm_result).segments

\* ------------------------------------------------------------------------
\* Specification for the edge inputs: one call of detect_meeting_type or of
\* normalize_transcript on empty text, zero segments, segments with start = end
\* ------------------------------------------------------------------------

\* a segment that starts and ends at the same instant
InstantSegment(id, text, has_words) == Segment(id, 5000, 5000, text, has_words, <<>>)

EdgeSegmentArgs ==
    { None, <<>>,
      <<[id |-> 0, start |-> 5000, end |-> 5000, text |-> ""]>>,
      <<[id |-> 0, start |-> 0, end |-> 0, text |-> "why?"],
        [id |-> 1, start |-> 0, end |-> 0, text |-> ""]>> }

EdgeClassifierTexts == {"", "why?", "status"}

EdgeSegmentTexts == {"", " ", "um", "we we meet at five pm"}

EdgeTranscriptions ==
    {Transcription(<<>>), OneSegment("")}
    \cup { Transcription(<<InstantSegment(0, t, hw)>>) : t \in EdgeSegmentTexts, hw \in BOOLEAN }
    \cup { Transcription(<<InstantSegment(0, t, TRUE), InstantSegment(1, u, TRUE)>>) :
             t \in {"", "um"}, u \in {"", "five pm"} }

\* a transcript on which both calls are still to be made, as in the pipeline: one of
\* the two calls gets the varied input, the other the empty one; a behaviour makes one
\* of the calls
InitEdge ==
    /\ pc = "start"
    /\ \E text \in EdgeClassifierTexts, segments \in EdgeSegmentArgs,
          t \in EdgeTranscriptions, remove_fillers \in BOOLEAN, normalize_numbers \in BOOLEAN :
           LET stored == StoreTranscription(<<>>, t)
           IN  /\ \/ text = "" /\ segments = None
                  \/ t = Transcription(<<>>) /\ remove_fillers /\ normalize_numbers
               /\ cls = [transcript_text |-> text, segments |-> segments,
                         scores |-> None, result |-> None]
               /\ heap = stored.heap
               /\ norm = [transcription |-> stored.addr,
                          remove_fillers |-> remove_fillers,
                          normalize_numbers |-> normalize_numbers,
                          before |-> t,
                          result |-> 0,
                          changes |-> <<>>,
                          raised |-> FALSE]
    /\ stut = NoCall
    /\ rep = NoCall
    /\ nums = NoCall
    /\ stitch = NoCall
    /\ pipe = NoCall
    /\ api = NoCall
    /\ menu = NoCall

NextEdge == Classify \/ Normalize

SpecEdge == InitEdge /\ [][NextEdge]_vars

\* C17: detect_meeting_type and normalize_transcript never raise for empty text, for
\* zero segments or for segments whose start equals their end: every call returns a
\* result, the classifier's for empty text being the fallback; a transcription with zero
\* segments gives zero segments, empty text and no changes.
C17_TotalOnEdgeInputs ==
    /\ pc # "normalize_failed"
    /\ pc = "classified" =>
           /\ \E i \in 1..Len(MeetingTypes) : cls.result.detected_type = MeetingTypes[i]
           /\ cls.transcript_text = "" => IsFallback(cls.result)
    /\ pc = "normalized" =>
           /\ ~norm.raised
           /\ norm.result # 0
           /\ Len(TranscriptionValue(heap, norm.result).segments)
                  <= Len(norm.before.segments)
           /\ norm.before.segments = <<>> =>
                  /\ TranscriptionValue(heap, norm.result).segments = <<>>
                  /\ TranscriptionValue(heap, norm.result).text = ""
                  /\ norm.changes = <<>>

\* normalize_transcript has returned for a transcription with zero segments
C17_Witness ==
    /\ pc = "normalized"
    /\ norm.before.segments = <<>>
    /\ norm.remove_fillers
    /\ norm.normalize_numbers
    /\ TranscriptionValue(heap, norm.result) = [text |-> "", segments |-> <<>>]

\* the repaired text as the engine returned it: the string, or the repaired_text field
ReturnedText(response) ==
    IF response.kind = "text" THEN response.text ELSE response.repaired_text

\* the engine returned a text, as a string or as the repaired_text field
ReturnsText(response) ==
    response.kind = "text" \/ (response.kind = "dict" /\ response.has_repaired_text)

\* C18: if the repaired text that the engine returns, as a plain string or as the
\* repaired_text field, equals the original full text, repair_transcript records no
\* change and leaves every segment text and the top-level text as in the input.
C18_EqualTextChangesNothing ==
    (/\ pc = "repaired"
     /\ ReturnsText(rep.response)
     /\ ReturnedText(rep.response) = OriginalFullText)
        => /\ rep.changes = <<>>
           /\ TranscriptionValue(heap, rep.result) = rep.before

\* ------------------------------------------------------------------------
\* Specification for the keyword score: one call of detect_meeting_type on a text made
\* of occurrences of one keyword of the table between neutral words
\* ------------------------------------------------------------------------

\* the largest number of occurrences of the keyword in a generated text
MaxOccurrences == 2

\* every (meeting type, index in the type's keyword list) of the table
KeywordRefs ==
    UNION { { <<MeetingTypes[t], i>> : i \in 1..Len(MEETING_TYPE_KEYWORDS[MeetingTypes[t]]) } :
              t \in 1..Len(MeetingTypes) }

\* n occurrences of keyword, each after the neutral word "ok"
RECURSIVE KeywordText(_, _)
KeywordText(keyword, n) ==
    IF n = 0 THEN "ok" ELSE KeywordText(keyword, n - 1) \o " " \o keyword \o " ok"

InitKeyword ==
    /\ pc = "start"
    /\ \E ref \in KeywordRefs, n \in 1..MaxOccurrences :
           cls = [transcript_text |-> KeywordText(MEETING_TYPE_KEYWORDS[ref[1]][ref[2]][1], n),
                  segments |-> None,
                  scores |-> None,
                  result |-> None,
                  meeting_type |-> ref[1],
                  keyword |-> MEETING_TYPE_KEYWORDS[ref[1]][ref[2]][1],
                  weight |-> MEETING_TYPE_KEYWORDS[ref[1]][ref[2]][2],
                  occurrences |-> n]
    /\ stut = NoCall
    /\ heap = <<>>
    /\ norm = NoCall
    /\ rep = NoCall
    /\ nums = NoCall
    /\ stitch = NoCall
    /\ pipe = NoCall
    /\ api = NoCall
    /\ menu = NoCall

NextKeyword == Classify

SpecKeyword == InitKeyword /\ [][NextKeyword]_vars

\* C19 as stated: a text of n occurrences of a keyword with weight w of type T, and
\* otherwise neutral words, gives T a keyword score of exactly w * ln(1 + n).
C19_ScoreIsOneContribution ==
    Classified => cls.scores[cls.meeting_type] = cls.weight * Log1p(cls.occurrences)

\* what the other keywords of the type that occur inside keyword contribute when
\* keyword occurs n times: each w' * ln(1 + n * (its count inside keyword))
RECURSIVE InnerContributions(_, _, _)
InnerContributions(keywords_dict, keyword, n) ==
    IF keywords_dict = <<>> THEN 0
    ELSE (IF Head(keywords_dict)[1] # keyword
             /\ StrCount(Lower(keyword), Lower(Head(keywords_dict)[1])) > 0
          THEN Head(keywords_dict)[2]
                   * Log1p(n * StrCount(Lower(keyword), Lower(Head(keywords_dict)[1])))
          ELSE 0)
         + InnerContributions(Tail(keywords_dict), keyword, n)

\* C19 amended: the text gives T a keyword score of w * ln(1 + n) plus
\* w' * ln(1 + n * c') for every other keyword of T that occurs c' > 0 times inside the
\* keyword, and so exactly w * ln(1 + n) when no other keyword of T is a substring of
\* the keyword.
C19_ScoreIsContributionPlusInner ==
    Classified =>
        LET inner == InnerContributions(MEETING_TYPE_KEYWORDS[cls.meeting_type],
                                        cls.keyword, cls.occurrences)
        IN  /\ cls.scores[cls.meeting_type] = cls.weight * Log1p(cls.occurrences) + inner
            /\ inner = 0 <=>
                   \A j \in 1..Len(MEETING_TYPE_KEYWORDS[cls.meeting_type]) :
                       LET other == MEETING_TYPE_KEYWORDS[cls.meeting_type][j][1]
                       IN  other = cls.keyword \/ ~Contains(Lower(cls.keyword), Lower(other))

\* "in progress" twice: 1.5 * ln 3 from the keyword and 2.0 * ln 3 from "progress"
C19_Witness ==
    /\ Classified
    /\ cls.meeting_type = "status"
    /\ cls.keyword = "in progress"
    /\ cls.occurrences = 2
    /\ cls.scores["status"] = 15 * Log1p(2) + 20 * Log1p(2)

\* C20: whenever secondary_types of a result of detect_meeting_type is not empty, the
\* score of its first entry is strictly lower than the confidence of the result.
C20_FirstSecondaryBelowConfidence ==
    (Classified /\ cls.result.secondary_types # <<>>) =>
        FLess(cls.result.secondary_types[1][2], cls.result.confidence)

\* ------------------------------------------------------------------------
\* OpenAIEngine._call_api and OllamaEngine._call_api: the retry loop
\* ------------------------------------------------------------------------

\* the largest max_retries a call is made with
MaxRetries == 2

Engines == {"openai", "ollama"}

\* what one pass through the try block can end in: the content is returned, or
\* client.post, raise_for_status or the reading of the response body raises
AttemptOutcomes ==
    { [kind |-> "ok", content |-> c] : c \in {"", "test"} }
        \cup { [kind |-> "TimeoutException"] }
        \cup { [kind |-> "HTTPStatusError", status_code |-> code] : code \in {404, 500} }
        \cup { [kind |-> "Exception"] }

AttemptFailed(outcome) == outcome.kind # "ok"

\* no exception has left the call
NoError == [type |-> None, message |-> ""]

\* the LLMError raised by the handler of the outcome's exception
LLMErrorFor(engine, outcome) ==
    [type |-> "LLMError",
     message |->
        IF engine = "openai"
        THEN CASE outcome.kind = "TimeoutException" -> "LLM request timeout"
               [] outcome.kind = "HTTPStatusError" ->
                      "LLM API error: " \o ToString(outcome.status_code)
               [] OTHER -> "LLM request failed"
        ELSE CASE outcome.kind = "TimeoutException" -> "Ollama request timeout"
               [] outcome.kind = "HTTPStatusError" ->
                      IF outcome.status_code = 404
                      THEN "Model not found"
                      ELSE "Ollama API error: " \o ToString(outcome.status_code)
               [] OTHER -> "Ollama request failed"]

\* the handlers raise one attempt before the last
IsLastAttemptEarly(attempt, max_retries) == attempt = max_retries - 1

\* if attempt == self.max_retries
IsLastAttempt(attempt, max_retries) == attempt = max_retries

\* range(self.max_retries + 1) still has the value attempt
InRange(attempt, max_retries) == attempt < max_retries + 1

\* an engine constructed with max_retries, _call_api entered; max_retries = -1 makes the
\* range empty
InitCallApi ==
    /\ pc = "start"
    /\ \E engine \in Engines, max_retries \in (0 - 1)..MaxRetries :
           api = [engine |-> engine, max_retries |-> max_retries, attempt |-> 0,
                  outcomes |-> <<>>, requests |-> 0, result |-> None, error |-> NoError]
    /\ cls = NoCall
    /\ stut = NoCall
    /\ heap = <<>>
    /\ norm = NoCall
    /\ rep = NoCall
    /\ nums = NoCall
    /\ stitch = NoCall
    /\ pipe = NoCall
    /\ menu = NoCall

\* one iteration whose try block reaches its return
AttemptReturns ==
    /\ pc = "start"
    /\ InRange(api.attempt, api.max_retries)
    /\ \E outcome \in AttemptOutcomes :
           /\ ~AttemptFailed(outcome)
           /\ api' = [api EXCEPT !.outcomes = Append(@, outcome),
                                 !.requests = @ + 1,
                                 !.result = outcome.content]
    /\ pc' = "returned"
    /\ UNCHANGED <<cls, stut, heap, norm, rep, nums, stitch, pipe, menu>>

\* one iteration whose try block raises: the handler raises LLMError on the last
\* attempt and falls through to the next iteration otherwise
AttemptRaises ==
    /\ pc = "start"
    /\ InRange(api.attempt, api.max_retries)
    /\ \E outcome \in AttemptOutcomes :
           /\ AttemptFailed(outcome)
           /\ IF IsLastAttempt(api.attempt, api.max_retries)
              THEN /\ api' = [api EXCEPT !.outcomes = Append(@, outcome),
                                         !.requests = @ + 1,
                                         !.error = LLMErrorFor(api.engine, outcome)]
                   /\ pc' = "raised"
              ELSE /\ api' = [api EXCEPT !.outcomes = Append(@, outcome),
                                         !.requests = @ + 1,
                                         !.attempt = @ + 1]
                   /\ pc' = "start"
    /\ UNCHANGED <<cls, stut, heap, norm, rep, nums, stitch, pipe, menu>>

\* the loop is over: raise LLMError("Max retries exceeded")
LoopExhausted ==
    /\ pc = "start"
    /\ ~InRange(api.attempt, api.max_retries)
    /\ api' = [api EXCEPT !.error = [type |-> "LLMError", message |-> "Max retries exceeded"]]
    /\ pc' = "raised"
    /\ UNCHANGED <<cls, stut, heap, norm, rep, nums, stitch, pipe, menu>>

NextCallApi == AttemptReturns \/ AttemptRaises \/ LoopExhausted

SpecCallApi == InitCallApi /\ [][NextCallApi]_vars

\* the call runs on: every request ends (the client has a timeout) and the loop goes on
SpecCallApiRuns == SpecCallApi /\ WF_vars(NextCallApi)

\* every attempt made so far failed, and max_retries + 1 were made
AllAttemptsFailed ==
    /\ Len(api.outcomes) = api.max_retries + 1
    /\ \A i \in 1..Len(api.outcomes) : AttemptFailed(api.outcomes[i])

\* what holds of the requests at every point of the call
CallApiBounded ==
    /\ api.requests = Len(api.outcomes)
    /\ api.requests <= api.max_retries + 1
    /\ \A i \in 1..(Len(api.outcomes) - 1) : AttemptFailed(api.outcomes[i])
    /\ pc = "returned" =>
           /\ api.outcomes # <<>>
           /\ ~AttemptFailed(api.outcomes[Len(api.outcomes)])
           /\ api.result = api.outcomes[Len(api.outcomes)].content
           /\ api.error = NoError
    /\ pc = "raised" =>
           /\ api.error.type = "LLMError"
           /\ AllAttemptsFailed
    /\ pc = "start" => api.result = None /\ api.error = NoError

\* C21: _call_api makes at most max_retries + 1 requests; it returns the content of the
\* first successful attempt and makes no request after it; it raises LLMError if and
\* only if all max_retries + 1 attempts failed; and the call always ends.
C21_BoundedRetries ==
    /\ []CallApiBounded
    /\ [][pc = "returned" => api' = api]_vars
    /\ AllAttemptsFailed ~> (pc = "raised")
    /\ <>(pc \in {"returned", "raised"})

\* two timeouts, then the third and last attempt of max_retries = 2 returns "test"
C21_Witness ==
    /\ pc = "returned"
    /\ api.max_retries = 2
    /\ api.requests = 3
    /\ api.outcomes[1].kind = "TimeoutException"
    /\ api.outcomes[2].kind = "TimeoutException"
    /\ api.result = "test"

\* ------------------------------------------------------------------------
\* MeetingTypeMenu: the candidates, the key loop of _run_menu_loop, and show
\* ------------------------------------------------------------------------

\* for mt in all_types: if mt not in existing_types and len(self.candidates) < 6: append
RECURSIVE FillCandidates(_, _, _, _)
FillCandidates(candidates, existing_types, all_types, i) ==
    IF i > Len(all_types) THEN candidates
    ELSE FillCandidates(
             IF all_types[i] \notin existing_types /\ Len(candidates) < 6
             THEN Append(candidates, <<all_types[i], 0>>)
             ELSE candidates,
             existing_types, all_types, i + 1)

\* the secondary types that follow the detected one: secondary_types[:5] without it
SecondaryCandidates(detected_type, secondary_types) ==
    SelectSeq(SubSeq(secondary_types, 1, Min(5, Len(secondary_types))),
              LAMBDA entry : entry[1] # detected_type)

\* the candidates with the secondary types appended, then filled from all_types
WithFill(candidates, all_types) ==
    FillCandidates(candidates, { candidates[i][1] : i \in 1..Len(candidates) }, all_types, 1)

\* MeetingTypeMenu.__init__: self.candidates; scores are in thousandths
BuildCandidates(detected_type, confidence, secondary_types, all_types) ==
    WithFill(<<<<detected_type, confidence>>>>
                 \o SecondaryCandidates(detected_type, secondary_types),
             all_types)

\* the secondary_types of the classification results the menu is built from
MenuSecondaryTypes ==
    { <<>>,
      <<<<"planning", 650>>>>,
      <<<<"planning", 400>>, <<"status", 300>>, <<"design", 200>>>>,
      <<<<"demo", 90>>, <<"talk", 80>>, <<"incident", 70>>, <<"discovery", 60>>,
        <<"oneonone", 50>>, <<"brainstorm", 40>>>> }

\* all_types as passed: the default list(MeetingType), no type, two types
MenuAllTypes == {MeetingTypes, <<>>, <<"status", "talk">>}

\* readchar.readkey(): the keys the loop tells apart, and any other key
Keys == {"UP", "DOWN", "ENTER", "ESC", "CTRL_C", "OTHER"}

\* the index moved without the modulo
MovedIndexUnwrapped(selected_index, delta, n) == selected_index + delta

\* (self.selected_index + delta) % len(self.candidates)
MovedIndex(selected_index, delta, n) == (selected_index + delta) % n

\* menu = MeetingTypeMenu(result, all_types); menu.show() entered
InitMenu ==
    /\ pc = "start"
    /\ \E detected_type \in {"status", "planning", "brainstorm"},
          secondary_types \in MenuSecondaryTypes, all_types \in MenuAllTypes :
           menu = [detected_type |-> detected_type,
                   candidates |-> BuildCandidates(detected_type, 850, secondary_types,
                                                  all_types),
                   selected_index |-> 0,
                   key |-> None,
                   index_at_key |-> 0,
                   result |-> None]
    /\ cls = NoCall
    /\ stut = NoCall
    /\ heap = <<>>
    /\ norm = NoCall
    /\ rep = NoCall
    /\ nums = NoCall
    /\ stitch = NoCall
    /\ pipe = NoCall
    /\ api = NoCall

\* key == readchar.key.UP
KeyUp ==
    /\ pc = "start"
    /\ menu' = [menu EXCEPT !.key = "UP", !.index_at_key = menu.selected_index,
                            !.selected_index = MovedIndex(@, 0 - 1, Len(menu.candidates))]
    /\ pc' = "start"
    /\ UNCHANGED <<cls, stut, heap, norm, rep, nums, stitch, pipe, api>>

\* key == readchar.key.DOWN
KeyDown ==
    /\ pc = "start"
    /\ menu' = [menu EXCEPT !.key = "DOWN", !.index_at_key = menu.selected_index,
                            !.selected_index = MovedIndex(@, 1, Len(menu.candidates))]
    /\ pc' = "start"
    /\ UNCHANGED <<cls, stut, heap, norm, rep, nums, stitch, pipe, api>>

\* key == readchar.key.ENTER: return self.candidates[self.selected_index][0]
KeyEnter ==
    /\ pc = "start"
    /\ menu' = [menu EXCEPT !.key = "ENTER", !.index_at_key = menu.selected_index,
                            !.result = menu.candidates[menu.selected_index + 1][1]]
    /\ pc' = "returned"
    /\ UNCHANGED <<cls, stut, heap, norm, rep, nums, stitch, pipe, api>>

\* key == readchar.key.ESC: return self.detected_type
KeyEsc ==
    /\ pc = "start"
    /\ menu' = [menu EXCEPT !.key = "ESC", !.index_at_key = menu.selected_index,
                            !.result = menu.detected_type]
    /\ pc' = "returned"
    /\ UNCHANGED <<cls, stut, heap, norm, rep, nums, stitch, pipe, api>>

\* Ctrl+C, read as a key or raised by readkey: KeyboardInterrupt leaves the loop and
\* show returns self.detected_type
KeyCtrlC ==
    /\ pc = "start"
    /\ menu' = [menu EXCEPT !.key = "CTRL_C", !.index_at_key = menu.selected_index,
                            !.result = menu.detected_type]
    /\ pc' = "returned"
    /\ UNCHANGED <<cls, stut, heap, norm, rep, nums, stitch, pipe, api>>

\* any other key: the loop redraws and reads again
KeyOther ==
    /\ pc = "start"
    /\ menu' = [menu EXCEPT !.key = "OTHER", !.index_at_key = menu.selected_index]
    /\ pc' = "start"
    /\ UNCHANGED <<cls, stut, heap, norm, rep, nums, stitch, pipe, api>>

NextMenu == KeyUp \/ KeyDown \/ KeyEnter \/ KeyEsc \/ KeyCtrlC \/ KeyOther

SpecMenu == InitMenu /\ [][NextMenu]_vars

\* the index one place before i, and one place after i, going round a list of n
WrappedBefore(i, n) == IF i = 0 THEN n - 1 ELSE i - 1
WrappedAfter(i, n) == IF i = n - 1 THEN 0 ELSE i + 1

MergedIndices(segments) ==
    SelectSeq([i \in 1..Len(segments) |-> i], LAMBDA i : ~OpensSegment(segments, i))

\* the index of the segment that opens the run segment i belongs to
OpenerOf(segments, i) ==
    CHOOSE o \in 1..i :
        /\ OpensSegment(segments, o)
        /\ \A j \in (o + 1)..i : ~OpensSegment(segments, j)

\* C24: stitching logs exactly one change per merge: the number of entries is the number
\* of input segments minus the number of output segments; the entries are in the order
\* of the merges, each with the id of the segment that opens the run (the id the merged
\* segment keeps) as segment_id and [Stitched segment id] as after, and with a before
\* field that names the ids of the two adjacent input segments joined by the merge.
C24_OneChangePerMerge ==
    StitchReturned =>
        LET input == stitch.before
            output == StitchedSegments
            merged == MergedIndices(input)
        IN  /\ Len(stitch.changes) = Len(input) - Len(output)
            /\ Len(stitch.changes) = Len(merged)
            /\ \A m \in 1..Len(merged) :
                   LET i == merged[m]
                       survivor == input[OpenerOf(input, i)].id
                       entry == stitch.changes[m]
                   IN  /\ entry.segment_id = survivor
                       /\ \E k \in 1..Len(output) : output[k].id = survivor
                       /\ entry.before = "[Segment " \o ToString(input[i - 1].id)
                                             \o "] + [Segment " \o ToString(input[i].id) \o "]"
                       /\ entry.after = "[Stitched segment " \o ToString(survivor) \o "]"
                       /\ entry.change_type = "normalization"

\* three segments merged into one: two entries, both with segment_id 0, the second
\* naming segments 1 and 2
C24_Witness ==
    /\ StitchReturned
    /\ Len(stitch.before) = 3
    /\ Len(StitchedSegments) = 1
    /\ Len(stitch.changes) = 2
    /\ stitch.changes[2].segment_id = 0
    /\ stitch.changes[2].before = "[Segment 1] + [Segment 2]"

\* ------------------------------------------------------------------------
\* The word redistribution of repair_transcript
\* ------------------------------------------------------------------------

\* the call has returned
RepairReturned == pc = "repaired"

\* the repaired text the call worked with
GivenRepairedText == RepairedText(rep.response, OriginalFullText)

\* the call returned after taking the branch that applies the repaired text
RepairApplied ==
    /\ RepairReturned
    /\ GivenRepairedText # ""
    /\ GivenRepairedText # OriginalFullText

\* the returned transcription, every reference followed
RepairedTranscription == TranscriptionValue(heap, rep.result)

\* the number of repaired words that segments 1..i of the input ask for, the last
\* segment left out: max(1, words of the original text) each
WordsAskedUpTo(segments, i) ==
    LET asked[k \in 0..i] ==
            IF k = 0 THEN 0
            ELSE asked[k - 1] + Max(1, Len(SplitWords(segments[k].text)))
    IN  asked[i]

\* the repaired words that segment i is given: the next max(1, words of its text) of
\* those left, fewer or none when they run out; the last segment all that are left
WordsGiven(segments, words, i) ==
    IF i = Len(segments)
    THEN SubSeq(words, WordsAskedUpTo(segments, i - 1) + 1, Len(words))
    ELSE SubSeq(words, WordsAskedUpTo(segments, i - 1) + 1,
                Min(WordsAskedUpTo(segments, i), Len(words)))

\* the entries of the change log with the reason of the redistribution, in order
RedistributionChanges ==
    SelectSeq(rep.changes, LAMBDA c : c.reason = "LLM-based ASR error correction")

\* the indices of the segments whose text after the repair is not their original text
RewrittenSegments ==
    SelectSeq([i \in 1..Len(rep.before.segments) |-> i],
              LAMBDA i : JoinSpace(WordsGiven(rep.before.segments,
                                              SplitWords(GivenRepairedText), i))
                             # rep.before.segments[i].text)

\* C25: when repair_transcript applies a repaired text that differs from the original,
\* every segment but the last gets the next max(1, number of words of its original
\* text) repaired words (fewer or none when they run out) and the last segment gets all
\* that remain, each segment's text being its words joined by single spaces; a change
\* with reason "LLM-based ASR error correction" is logged exactly for the segments whose
\* new text differs from the original one, in segment order.
C25_WordsDealtInOrder ==
    RepairApplied =>
        LET input == rep.before.segments
            output == RepairedTranscription.segments
            words == SplitWords(GivenRepairedText)
        IN  /\ Len(output) = Len(input)
            /\ \A i \in 1..Len(input) :
                   output[i].text = JoinSpace(WordsGiven(input, words, i))
            /\ Len(RedistributionChanges) = Len(RewrittenSegments)
            /\ \A m \in 1..Len(RewrittenSegments) :
                   LET i == RewrittenSegments[m]
                   IN  /\ RedistributionChanges[m].segment_id = input[i].id
                       /\ RedistributionChanges[m].before = input[i].text
                       /\ RedistributionChanges[m].after = output[i].text
                       /\ RedistributionChanges[m].change_type = "repair"

\* C25 amended: when the applied repaired text has at least one word, the words are
\* dealt out and the changes logged as stated; when it has none (whitespace only, in the
\* repaired_text field), no segment text is touched and no change with that reason is
\* logged.
C25_WordsDealtUnlessNone ==
    RepairApplied =>
        IF SplitWords(GivenRepairedText) # <<>>
        THEN C25_WordsDealtInOrder
        ELSE /\ RepairedTranscription.segments = rep.before.segments
             /\ RedistributionChanges = <<>>

\* three segments and one repaired word: the first segment gets it, the second and the
\* third get none, and the first and the third are logged
C25_Witness ==
    /\ RepairApplied
    /\ Len(rep.before.segments) = 3
    /\ SplitWords(GivenRepairedText) = <<"the">>
    /\ RepairedTranscription.segments[1].text = "the"
    /\ RepairedTranscription.segments[3].text = ""
    /\ Len(RedistributionChanges) = 2
    /\ RedistributionChanges[2].segment_id = 2

\* a segment value without its text
SegmentFrame(segment) ==
    [id |-> segment.id, start |-> segment.start, end |-> segment.end,
     has_words |-> segment.has_words, words |-> segment.words]

\* C26: repair_transcript changes only segment texts and the top-level text: whatever
\* the engine returns, the returned transcription has as many segments as the input,
\* and every segment has the id, start, end and words of the input segment at its place.
C26_RepairKeepsSegmentFrame ==
    RepairReturned =>
        /\ Len(RepairedTranscription.segments) = Len(rep.before.segments)
        /\ \A i \in 1..Len(rep.before.segments) :
               SegmentFrame(RepairedTranscription.segments[i])
                   = SegmentFrame(rep.before.segments[i])

\* both texts of two segments with words lists were rewritten, and a word was added
C26_Witness ==
    /\ RepairApplied
    /\ Len(rep.before.segments) = 2
    /\ RepairedTranscription.text = "the plan is set now"
    /\ RepairedTranscription.segments[1].text = "the plan"
    /\ RepairedTranscription.segments[2].text = "is set now"
    /\ RepairedTranscription.segments[1].words = <<"a", "b">>
    /\ Len(rep.changes) >= 2

\* ------------------------------------------------------------------------
\* The structural bonuses of detect_meeting_type
\* ------------------------------------------------------------------------

\* the scores dict after the keyword loop alone
KeywordScores(transcript_text) ==
    [t \in {MeetingTypes[i] : i \in 1..Len(MeetingTypes)} |->
        KeywordScan(Lower(transcript_text), t).type_score]

\* the three tests of _add_structural_features, on the lower-cased text
QuestionDensityHigh(text_lower) ==
    LET sentences == SplitOn(text_lower, ".")
        asked == Cardinality({i \in 1..Len(sentences) : Contains(sentences[i], "?")})
    IN  10 * asked > 3 * Len(sentences)

TimelineCount(text_lower) == SumCounts(text_lower, timeline_words)

ActionCount(text_lower) == SumCounts(text_lower, action_markers)

\* the bonus of each test, in tenths, for one meeting type
QuestionBonus(t) ==
    IF t = "discovery" THEN 20 ELSE IF t = "brainstorm" THEN 15 ELSE IF t = "status" THEN 10 ELSE 0

TimelineBonus(t) == IF t = "status" THEN 20 ELSE IF t = "planning" THEN 15 ELSE 0

ActionBonus(t) == IF t = "planning" THEN 15 ELSE IF t = "incident" THEN 10 ELSE 0

\* the keyword scores plus each bonus once, exactly when its threshold is exceeded
WithBonuses(transcript_text) ==
    LET text_lower == Lower(transcript_text)
    IN  [t \in {MeetingTypes[i] : i \in 1..Len(MeetingTypes)} |->
            KeywordScores(transcript_text)[t]
            + (IF QuestionDensityHigh(text_lower) THEN Bonus(QuestionBonus(t)) ELSE 0)
            + (IF TimelineCount(text_lower) > 3 THEN Bonus(TimelineBonus(t)) ELSE 0)
            + (IF ActionCount(text_lower) > 5 THEN Bonus(ActionBonus(t)) ELSE 0)]

\* C27 as stated: when segments is supplied, each structural bonus is added at most once
\* and exactly when its threshold is strictly exceeded (question density > 0.3, timeline
\* count > 3, action count > 5); when segments is omitted the keyword scores are unchanged.
C27_BonusesWhenSupplied ==
    Classified =>
        /\ cls.segments # None => cls.scores = WithBonuses(cls.transcript_text)
        /\ cls.segments = None => cls.scores = KeywordScores(cls.transcript_text)

\* C27 amended: the bonuses are added, each at most once and exactly when its threshold is
\* strictly exceeded, when segments is a non-empty list; when segments is omitted or is
\* an empty list the keyword scores are used unchanged.
C27_BonusesWhenNonEmpty ==
    Classified =>
        /\ (cls.segments # None /\ cls.segments # <<>>) =>
               cls.scores = WithBonuses(cls.transcript_text)
        /\ (cls.segments = None \/ cls.segments = <<>>) =>
               cls.scores = KeywordScores(cls.transcript_text)

\* a call with segments whose text sits exactly on all three thresholds gets no bonus,
\* and one just above them gets every bonus
C27_Witness ==
    /\ Classified
    /\ cls.segments # None /\ cls.segments # <<>>
    /\ TimelineCount(Lower(cls.transcript_text)) = 4
    /\ ActionCount(Lower(cls.transcript_text)) = 6
    /\ QuestionDensityHigh(Lower(cls.transcript_text))
    /\ cls.scores["planning"] = KeywordScores(cls.transcript_text)["planning"] + Bonus(30)

C27_WitnessOnThreshold ==
    /\ Classified
    /\ cls.segments # None /\ cls.segments # <<>>
    /\ TimelineCount(Lower(cls.transcript_text)) = 3
    /\ ActionCount(Lower(cls.transcript_text)) = 5
    /\ cls.scores = KeywordScores(cls.transcript_text)

\* an empty list is supplied and the text exceeds a threshold
C27_WitnessEmptyList ==
    /\ Classified
    /\ cls.segments # None /\ cls.segments = <<>>
    /\ TimelineCount(Lower(cls.transcript_text)) > 3
    /\ cls.scores = KeywordScores(cls.transcript_text)

\* the segment lists that pass `if segments:`
NonEmptySegmentArgs == {segs \in SegmentArgs : Truthy(segs)}

\* C28: for a fixed transcript text, detect_meeting_type returns the same detected_type,
\* confidence, evidence and secondary_types for any two non-empty segment lists: the
\* contents, timing and number of the segments never influence the classification.
C28_SegmentsOnlyAsFlag ==
    (Classified /\ Truthy(cls.segments)) =>
        \A other \in NonEmptySegmentArgs :
            LET again == DetectMeetingType(cls.transcript_text, other)
            IN  /\ cls.result.detected_type = again.detected_type
                /\ cls.result.confidence = again.confidence
                /\ cls.result.evidence = again.evidence
                /\ cls.result.secondary_types = again.secondary_types

\* a call with several segments whose result differs from the result without segments
C28_Witness ==
    /\ Classified
    /\ Truthy(cls.segments)
    /\ Len(cls.segments) > 1
    /\ cls.result # DetectMeetingType(cls.transcript_text, None)
    /\ cls.result = DetectMeetingType(cls.transcript_text,
                                      <<[id |-> 0, start |-> 0, end |-> 1000, text |-> "ok"]>>)

\* ------------------------------------------------------------------------
\* Stitching a stitched list
\* ------------------------------------------------------------------------

StitchedAgain == pc = "restitched"

\* next.start minus previous.end for every two adjacent segments, in milliseconds
AdjacentPauses(segments) ==
    [k \in 1..(Len(segments) - 1) |-> segments[k + 1].start - segments[k].end]

\* C29: in the output of _stitch_sentences every two adjacent segments are separated by
\* a pause strictly greater than 0.5 s (next.start minus previous.end), so stitching an
\* already stitched list merges nothing and logs no change.
C29_StitchedListIsStable ==
    /\ (StitchReturned \/ StitchedAgain) =>
           \A k \in 1..(Len(StitchedSegments) - 1) : AdjacentPauses(StitchedSegments)[k] > 500
    /\ StitchedAgain =>
           /\ stitch.rechanges = <<>>
           /\ SegmentListValue(heap, stitch.restitched) = StitchedSegments

\* a list in which a merge happened and two output segments remain is stitched again
C29_Witness ==
    /\ StitchedAgain
    /\ stitch.changes # <<>>
    /\ Len(StitchedSegments) = 2
    /\ Len(SegmentListValue(heap, stitch.restitched)) = 2
    /\ stitch.rechanges = <<>>

\* the same where the merged run went back in time
C29_WitnessOverlap ==
    /\ StitchedAgain
    /\ stitch.changes # <<>>
    /\ Len(StitchedSegments) = 2
    /\ StitchedSegments[1].end < StitchedSegments[1].start

\* ------------------------------------------------------------------------
\* The repaired words after the redistribution
\* ------------------------------------------------------------------------

\* the whitespace-split words of the texts of segments 1..n, in segment order
RECURSIVE WordsOfSegments(_, _)
WordsOfSegments(segments, n) ==
    IF n = 0 THEN <<>>
    ELSE WordsOfSegments(segments, n - 1) \o SplitWords(segments[n].text)

\* the words of all the output segments of the returned transcription
OutputWords ==
    WordsOfSegments(RepairedTranscription.segments, Len(RepairedTranscription.segments))

\* C30 as stated: when repair_transcript applies a repaired text to a transcription with
\* at least one segment, the whitespace-split words of the output segment texts, in
\* segment order, are exactly the whitespace-split words of the repaired text.
C30_RepairedWordsKept ==
    (RepairApplied /\ Len(rep.before.segments) >= 1) =>
        OutputWords = SplitWords(GivenRepairedText)

\* C30 amended: the same when the repaired text has at least one word; when it has none
\* the output segments keep the words of their original texts.
C30_RepairedWordsKeptUnlessNone ==
    (RepairApplied /\ Len(rep.before.segments) >= 1) =>
        IF SplitWords(GivenRepairedText) # <<>>
        THEN OutputWords = SplitWords(GivenRepairedText)
        ELSE OutputWords = WordsOfSegments(rep.before.segments, Len(rep.before.segments))

\* more repaired words than the segments ask for: the last segment takes the rest
C30_Witness ==
    /\ RepairApplied
    /\ Len(rep.before.segments) >= 2
    /\ Len(SplitWords(GivenRepairedText)) >
           WordsAskedUpTo(rep.before.segments, Len(rep.before.segments))
    /\ OutputWords = SplitWords(GivenRepairedText)

\* fewer repaired words than segments: a segment is left with no word
C30_WitnessFewWords ==
    /\ RepairApplied
    /\ SplitWords(GivenRepairedText) # <<>>
    /\ Len(SplitWords(GivenRepairedText)) < Len(rep.before.segments)
    /\ OutputWords = SplitWords(GivenRepairedText)

\* a repaired text without a word is applied to segments that have words
C30_WitnessNoWords ==
    /\ RepairApplied
    /\ SplitWords(GivenRepairedText) = <<>>
    /\ OutputWords # <<>>

====
